---- MODULE Spec2Model ----
(***************************************************************************)
(* Model of the pecs promise engine (crates/pecs_core/src/lib.rs): the     *)
(* typed registry of pending promises, promise_register / promise_resolve  *)
(* / promise_reject / promise_discard, the combinators then, ok_then,      *)
(* or_else, map, map_ok, map_err, any and all, the timer adapter and the   *)
(* deferred PromiseCommand queue applied by the host.                      *)
(*                                                                         *)
(* Boxed FnOnce closures are modelled as tagged records (field k names the *)
(* closure, the other fields are its captured variables); invoking a       *)
(* closure is the operator Call* that dispatches on the tag and does what  *)
(* the closure body does.  The bevy World is the record `world`.           *)
(***************************************************************************)
EXTENDS Integers, Sequences, FiniteSets, TLC

VARIABLES world,      \* the bevy World: registries, Timers, Requests, Time, ...
          queue,      \* the host's deferred command queue (Commands)
          program,    \* the promise expression the application spawns
          spawned     \* TRUE once the application has queued its promise

vars == <<world, queue, program, spawned>>

(***************************************************************************)
(* Bounds of the model.                                                    *)
(***************************************************************************)
MaxTime == 3        \* simulated time runs 0..MaxTime
MaxQueue == 3       \* at most this many deferred commands wait for a flush
MaxDelta == 1       \* a frame lasts 1..MaxDelta units of time
MaxExtDiscard == 1
MaxIds == 5             \* PromiseId::new calls of the allocator specification
MaxThreads == 3         \* threads ever started in the allocator specification  \* promise_discard calls the application makes itself

(***************************************************************************)
(* Option<Box<dyn FnOnce>>: None, or a closure record.                     *)
(***************************************************************************)
None == [k |-> "None"]
IsSome(c) == c.k # "None"
IsNone(c) == c.k = "None"

Ok(v) == <<"Ok", v>>
Err(e) == <<"Err", e>>
IsOk(res) == res[1] = "Ok"

Unit == 0           \* the value ()

\* one entry of the diagnostic / observation trace
Ev(ev, id, x) == [ev |-> ev, id |-> id, x |-> x]
Log(w, ev, id, x) == [w EXCEPT !.log = Append(@, Ev(ev, id, x))]

Halted(w) == w.halt # "none"
Panic(w) == [w EXCEPT !.halt = "panic"]

\* the registry that holds `id` is write-locked by a frame further up the stack
Locked(w, id) == w.tys[id] \in w.locked
\* a second write() on an RwLock this thread already holds: std documents that it
\* may panic or deadlock; the build's outcome is the field relock of the world
Relock(w) == [w EXCEPT !.halt = w.relock]

(***************************************************************************)
(* PromiseId::new: bump the thread-local counter and return it.  tys       *)
(* records the (R, E, S) instantiation the id was created for: the type    *)
(* parameters of every later promise_* call on it are fixed statically.    *)
(* of is an observation only: the ids of the promises the new one is built *)
(* over (self for then / map / ok_then, the elements for any / all).       *)
(***************************************************************************)
\* a counter that is handed out without being bumped
LocalStays(n) == n

\* *new_id += 1 on the thread's PROMISE_LOCAL_ID (a usize: not bounded, since
\* no run reaches 2^64 allocations)
LocalNext(n) == n + 1

\* struct PromiseId { thread, local }
PromiseId(thread, local) == [thread |-> thread, local |-> local]

\* PromiseId::new on thread `thread`, local being the PROMISE_LOCAL_ID cells of
\* the live threads
PromiseId_new_on(local, thread) ==
    LET n == LocalNext(local[thread])
    IN  [local |-> [local EXCEPT ![thread] = n], id |-> PromiseId(thread, n)]

\* the world of Spec runs its promises on one thread: next is that thread's
\* PROMISE_LOCAL_ID and an id is written as its local part
PromiseId_new(w, ty, of) ==
    [w |-> [w EXCEPT !.next = LocalNext(@), !.tys = Append(@, ty), !.of = Append(@, of)],
     id |-> LocalNext(w.next)]

Promise(id, ty, register, discard, resolve, reject, resolve_reject) ==
    [id |-> id, ty |-> ty, register |-> register, discard |-> discard,
     resolve |-> resolve, reject |-> reject, resolve_reject |-> resolve_reject]

\* Promise::register(invoke, discard)
Promise_register(w, ty, invoke, discard) ==
    LET n == PromiseId_new(w, ty, IF "ids" \in DOMAIN discard THEN discard.ids ELSE <<>>)
    IN  [w |-> n.w, p |-> Promise(n.id, ty, invoke, discard, None, None, None)]

\* Promise::new(default_state, func)
Promise_new(w, ty, default_state, func) ==
    LET n == PromiseId_new(w, ty, <<>>)
    IN  [w |-> n.w,
         p |-> Promise(n.id, ty, [k |-> "new_body", f |-> func, s |-> default_state],
                       None, None, None, None)]

\* the outer promise shared by then, map_ok, map_err and map: self gets the
\* combined handler and a discard that discards the outer promise; the outer
\* promise registers self and keeps self's former discard
ThenWith(w, self, func, ty2) ==
    LET n == PromiseId_new(w, ty2, <<self.id>>)
        inner == [self EXCEPT !.discard = [k |-> "discard_id", id |-> n.id],
                              !.resolve_reject = [k |-> "then_handler", f |-> func, id |-> n.id]]
    IN  [w |-> n.w,
         p |-> Promise(n.id, ty2, [k |-> "reg_self", p |-> inner],
                       [k |-> "call_orig", d |-> self.discard, self_id |-> self.id],
                       None, None, None)]

then(w, self, func, ty2) == ThenWith(w, self, func, ty2)

\* a map_ok that applies its closure twice
MapOkTwice(w, self, map, ty2) ==
    ThenWith(w, self, [k |-> "map_ok", m |-> [k |-> "comp", f |-> map, g |-> map]], ty2)

map_ok(w, self, map, ty2) == ThenWith(w, self, [k |-> "map_ok", m |-> map], ty2)
\* a map_err whose closure is applied to the success instead
MapErrMapsOk(w, self, map, ty2) == ThenWith(w, self, [k |-> "map_ok", m |-> map], ty2)

map_err(w, self, map, ty2) == ThenWith(w, self, [k |-> "map_err", m |-> map], ty2)
map_state(w, self, map, ty2) == ThenWith(w, self, [k |-> "map", m |-> map], ty2)
\* Promise::with(state) is map(|_| state)
with(w, self, state, ty2) == map_state(w, self, [k |-> "const", v |-> state], ty2)

\* a PromiseState::then that hands on the unit state instead of the caller's
StateThenDropsState(w, state, promise, ty2) ==
    map_state(w, promise, [k |-> "const", v |-> Unit], ty2)

\* PromiseState::then(promise) is promise.map(|_| self.value)
PromiseState_then(w, state, promise, ty2) ==
    map_state(w, promise, [k |-> "const", v |-> state], ty2)

ok_then(w, self, func, ty2) ==
    LET n == PromiseId_new(w, ty2, <<self.id>>)
        inner == [self EXCEPT !.discard = [k |-> "ok_then_discard", d |-> self.discard,
                                           self_id |-> self.id, id |-> n.id],
                              !.resolve = [k |-> "ok_then_handler", f |-> func, id |-> n.id]]
    IN  [w |-> n.w,
         p |-> Promise(n.id, ty2, [k |-> "reg_self", p |-> inner], None, None, None, None)]

\* an or_else that forwards the success through then instead of ok_then
OrElseThroughThen(w, self, func, ty2) ==
    then(w, [self EXCEPT !.reject = [k |-> "or_else_handler", f |-> func, id |-> self.id]],
         [k |-> "pass"], ty2)

\* an or_else that only forwards the success and stores no reject handler
OrElseForgetsHandler(w, self, func, ty2) == ok_then(w, self, [k |-> "ok_pass"], ty2)

\* IncompletePromise::or_else: the reject handler goes on the incomplete promise
\* itself, then ok_then forwards its success
or_else(w, self, func, ty2) ==
    ok_then(w, [self EXCEPT !.reject = [k |-> "or_else_handler", f |-> func, id |-> self.id]],
            [k |-> "ok_pass"], ty2)

\* enum Repeat<R> { Continue, Break(R) }
Continue == <<"Continue">>
Break(r) == <<"Break", r>>

\* Promise::repeat(state, func): one iteration is Promise::new(state, func)
\* followed by a then that looks at the iteration's result
repeat(w, state, func) ==
    LET b == Promise_new(w, "U", state, func)
    IN  then(b.w, b.p, [k |-> "repeat_then", f |-> func], "U")

\* a timeout whose discard thunk leaves the timer in the table
TimeoutKeepsTimer(w, duration) ==
    Promise_register(w, "U", [k |-> "timeout_invoke", d |-> duration], [k |-> "noop"])

\* timer::timeout(duration)
timeout(w, duration) ==
    Promise_register(w, "U", [k |-> "timeout_invoke", d |-> duration], [k |-> "timeout_discard"])

\* Request::send(): an external task adapter
send(w, ty) ==
    Promise_register(w, ty, [k |-> "send_invoke"], [k |-> "send_discard"])

\* impl AnyPromises for Vec<Promise<R, E, S>>
any_register(w, promises) ==
    LET ids == [i \in 1..Len(promises) |-> promises[i].id]
    IN  Promise_register(w, "Any", [k |-> "any_invoke", ps |-> promises, ids |-> ids],
                         [k |-> "ids_discard", ids |-> ids])

\* impl AllPromises for Vec<Promise<R, E, S>>
all_register(w, promises) ==
    LET ids == [i \in 1..Len(promises) |-> promises[i].id]
    IN  Promise_register(w, "All", [k |-> "all_invoke", ps |-> promises, size |-> Len(ids)],
                         [k |-> "ids_discard", ids |-> ids])

(***************************************************************************)
(* The promise expressions an application can write.  Build evaluates one  *)
(* the way Rust does: the receiver first, then the combinator, each        *)
(* allocating its id as it is called.                                      *)
(***************************************************************************)
RECURSIVE Build(_, _)
RECURSIVE BuildAll(_, _, _)
\* the elements of a vec of promises, built left to right
RECURSIVE Apply(_, _)
\* the closures handed to map, map_ok, map_err (FnOnce(T) -> T2); comp is the
\* closure |x| g(f(x))
Apply(m, v) ==
    CASE m.k = "const" -> m.v
      [] m.k = "comp" -> Apply(m.g, Apply(m.f, v))
      [] m.k = "inc" -> v + 1
      [] m.k = "dbl" -> 2 * v
      [] m.k = "any_tag" -> <<v, m.any_id, m.idx, m.ids>>

\* the chain builders of commands.promise(new_state): new_state is the closure
\* returning the initial state.  PromiseCommands::map builds
\* Promise::new(map(new_state()), asyn!(s => s)): both closures run in the builder
PromiseCommands_map(w, new_state, map) ==
    LET w1 == Log(w, "eager", 0, <<"new_state", Unit>>)
        w2 == Log(w1, "eager", 0, <<map.k, new_state>>)
    IN  Promise_new(w2, "U", Apply(map, new_state), [k |-> "keep_state"])

\* PromiseCommands::map_result builds Promise::new((new_state(), map(())), ..)
PromiseCommands_map_result(w, new_state, map) ==
    LET w1 == Log(w, "eager", 0, <<"new_state", Unit>>)
        w2 == Log(w1, "eager", 0, <<map.k, Unit>>)
    IN  Promise_new(w2, "U", <<new_state, Apply(map, Unit)>>, [k |-> "unpack"])

\* PromiseCommands::then builds Promise::new(new_state(), asyn!(s => s)).then(func)
PromiseCommands_then(w, new_state, func) ==
    LET w1 == Log(w, "eager", 0, <<"new_state", Unit>>)
        n == Promise_new(w1, "U", new_state, [k |-> "keep_state"])
    IN  then(n.w, n.p, func, "U")

BuildAll(w, es, acc) ==
    IF Len(acc) = Len(es) THEN [w |-> w, ps |-> acc]
    ELSE LET b == Build(w, es[Len(acc) + 1])
         IN  BuildAll(b.w, es, Append(acc, b.p))

Build(w, e) ==
    CASE e.op = "timeout" -> timeout(w, e.d)
      [] e.op = "send" -> send(w, e.ty)
      [] e.op = "new" -> Promise_new(w, e.ty, e.s, e.f)
      [] e.op = "commands_map" -> PromiseCommands_map(w, e.s, e.m)
      [] e.op = "commands_map_result" -> PromiseCommands_map_result(w, e.s, e.m)
      [] e.op = "commands_then" -> PromiseCommands_then(w, e.s, e.f)
      [] e.op = "repeat" -> repeat(w, e.s, e.f)
      [] e.op = "then" -> LET b == Build(w, e.of) IN then(b.w, b.p, e.f, e.ty)
      [] e.op = "map_ok" -> LET b == Build(w, e.of) IN map_ok(b.w, b.p, e.m, e.ty)
      [] e.op = "map_err" -> LET b == Build(w, e.of) IN map_err(b.w, b.p, e.m, e.ty)
      [] e.op = "map" -> LET b == Build(w, e.of) IN map_state(b.w, b.p, e.m, e.ty)
      [] e.op = "with" -> LET b == Build(w, e.of) IN with(b.w, b.p, e.s, e.ty)
      [] e.op = "ok_then" -> LET b == Build(w, e.of) IN ok_then(b.w, b.p, e.f, e.ty)
      [] e.op = "or_else" -> LET b == Build(w, e.of) IN or_else(b.w, b.p, e.f, e.ty)
      [] e.op = "any" -> LET b == BuildAll(w, e.els, <<>>) IN any_register(b.w, b.ps)
      [] e.op = "all" -> LET b == BuildAll(w, e.els, <<>>) IN all_register(b.w, b.ps)

Resolve(r, s) == [k |-> "Resolve", r |-> r, s |-> s]
Reject(e, s) == [k |-> "Reject", e |-> e, s |-> s]
Await(p) == [k |-> "Await", p |-> p]
\* a body that returns the promise it has just built (b is what Build returns)
AwaitBuilt(b) == [w |-> b.w, pr |-> Await(b.p)]
\* a body that returns s.then(promise) for the promise it has just built
AwaitStateThen(b, s) == AwaitBuilt(PromiseState_then(b.w, s, b.p, "U"))

\* PromiseState::result
PromiseState_result(s, result) ==
    IF IsOk(result) THEN Resolve(result[2], s) ELSE Reject(result[2], s)

\* the name a user body is observed under
FName(f) == IF "name" \in DOMAIN f THEN f.name ELSE f.k

\* the continuation of one iteration of repeat: Continue builds and awaits the
\* next iteration with the state the body left, Break(r) resolves with r
repeat_then(w, func, s, x) ==
    IF ~IsOk(x) THEN [w |-> w, pr |-> Reject(x[2], s)]
    ELSE IF x[2] = Continue
    THEN LET b == repeat(w, s, func) IN [w |-> b.w, pr |-> Await(b.p)]
    ELSE [w |-> w, pr |-> Resolve(x[2][2], s)]

\* state.asyn().timeout(d).with_result(rep): a timer that hands on the state
\* and resolves with rep
TimeoutWithResult(d, state, rep) ==
    [op |-> "map_ok", ty |-> "U", m |-> [k |-> "const", v |-> rep],
     of |-> [op |-> "with", ty |-> "U", s |-> state, of |-> [op |-> "timeout", d |-> d]]]

\* the body of the counting loop: state.value += 1, then Break once more than
\* limit iterations ran, Continue otherwise; immediately (d = 0) or after a
\* timeout of d
LoopBody(w, f, s) ==
    LET iterations == s + 1
        r == IF iterations > f.limit THEN Break(f.result) ELSE Continue
    IN  IF f.d = 0 THEN [w |-> w, pr |-> Resolve(r, iterations)]
        ELSE LET b == Build(w, TimeoutWithResult(f.d, iterations, r))
             IN  [w |-> b.w, pr |-> Await(b.p)]

(***************************************************************************)
(* system.run((PromiseState::new(state), input), world): the body of an    *)
(* AsynFunction.  The user bodies are ok / err / pass / inc_state / await; *)
(* the others are the bodies the combinators build themselves.             *)
(***************************************************************************)
RunFunc(w, f, s, x) ==
    LET w1 == Log(w, "call", 0, <<FName(f), s, x>>)
    IN  CASE f.k = "ok" -> [w |-> w1, pr |-> Resolve(f.v, s)]
          [] f.k = "err" -> [w |-> w1, pr |-> Reject(f.e, s)]
          [] f.k = "pass" -> [w |-> w1, pr |-> PromiseState_result(s, x)]
          [] f.k = "await" -> AwaitBuilt(Build(w1, f.e))
          [] f.k = "state_then" -> AwaitStateThen(Build(w1, f.e), s)
          [] f.k = "ok_pass" -> [w |-> w1, pr |-> Resolve(x, s)]
          [] f.k = "keep_state" -> [w |-> w1, pr |-> Resolve(Unit, s)]
          [] f.k = "unpack" -> [w |-> w1, pr |-> Resolve(s[2], s[1])]
          [] f.k = "inc_state" -> [w |-> w1, pr |-> Resolve(Unit, s + 1)]
          [] f.k = "loop" -> LoopBody(w1, f, s)
          [] f.k = "forever" -> AwaitBuilt(Build(w1, TimeoutWithResult(f.d, s, Continue)))
          [] f.k = "repeat_then" -> repeat_then(w1, f.f, s, x)
          [] f.k = "map_ok" ->
                [w |-> w1, pr |-> IF IsOk(x) THEN Resolve(Apply(f.m, x[2]), s)
                                  ELSE Reject(x[2], s)]
          [] f.k = "map_err" ->
                [w |-> w1, pr |-> IF IsOk(x) THEN Resolve(x[2], s)
                                  ELSE Reject(Apply(f.m, x[2]), s)]
          [] f.k = "map" -> [w |-> w1, pr |-> PromiseState_result(Apply(f.m, s), x)]
          [] f.k = "any_then" ->
                LET b == Promise_register(w1, "U",
                             [k |-> "any_fanin", state |-> s[1], any_id |-> s[2],
                              idx |-> s[3], ids |-> s[4], r |-> x],
                             [k |-> "noop"])
                IN  [w |-> b.w, pr |-> Await(b.p)]
          [] f.k = "all_then" ->
                LET b == Promise_register(w1, "U",
                             [k |-> "all_fanin", any_id |-> s[1], idx |-> s[2], r |-> x],
                             [k |-> "noop"])
                IN  [w |-> b.w, pr |-> Await(b.p)]

(***************************************************************************)
(* The engine.  Rust's call stack is explicit: a frame is one pending call *)
(* (or the rest of a function body after a call it made), Run executes the *)
(* frames in order, and each operator below returns the world it leaves    *)
(* and the frames it puts in front of the rest of the stack: the calls it  *)
(* makes, in program order.  A panic or a relock stops the run.            *)
(***************************************************************************)
Ret(w, push) == [w |-> w, push |-> push]

FResolve(id, r, s) == [op |-> "resolve", id |-> id, r |-> r, s |-> s]
FReject(id, e, s) == [op |-> "reject", id |-> id, e |-> e, s |-> s]
FRegister(p) == [op |-> "register", p |-> p]
FDiscard(id) == [op |-> "discard", id |-> id]
FRemove(id) == [op |-> "remove", id |-> id]
FUnlock(ty) == [op |-> "unlock", ty |-> ty]
FCall(field, c, id, x, s) == [op |-> "call", field |-> field, c |-> c, id |-> id, x |-> x, s |-> s]
FDiscardEach(ids, i, skip) == [op |-> "discard_each", ids |-> ids, i |-> i, skip |-> skip]
FAnyLoop(any_id, ps, ids, i) == [op |-> "any_loop", any_id |-> any_id, ps |-> ps, ids |-> ids, i |-> i]
FAllLoop(any_id, ps, i) == [op |-> "all_loop", any_id |-> any_id, ps |-> ps, i |-> i]

RegistryInsert(w, p) ==
    [w EXCEPT !.reg = [i \in DOMAIN w.reg \cup {p.id} |-> IF i = p.id THEN p ELSE w.reg[i]]]

\* registry.0.write().unwrap().remove(&id), the last statement of resolve,
\* reject and discard
\* a registry whose remove(&id) leaves the record in place
RegistryKeep(w, id) == Ret(w, <<>>)

RegistryRemove(w, id) ==
    IF Locked(w, id) THEN Ret(Relock(Log(w, "relock", id, "remove")), <<>>)
    ELSE Ret([w EXCEPT !.reg = [i \in DOMAIN w.reg \ {id} |-> w.reg[i]]], <<>>)

\* observation: which Options of the record are Some when an operation finds it
Stored(w, id) ==
    Log(w, "stored", id, [resolve |-> IsSome(w.reg[id].resolve),
                          reject |-> IsSome(w.reg[id].reject),
                          resolve_reject |-> IsSome(w.reg[id].resolve_reject),
                          discard |-> IsSome(w.reg[id].discard)])

\* a resolve whose (None, Some(resolve_reject)) arm runs nothing
ResolveSkipsCombined(w, id, result, state) ==
    IF Locked(w, id) THEN Ret(Relock(Log(w, "relock", id, "resolve")), <<>>)
    ELSE IF id \notin DOMAIN w.reg
    THEN Ret(Panic(Log(w, "miss", id, "resolve")), <<>>)
    ELSE LET prom == w.reg[id]
             w1 == Log([Stored(w, id) EXCEPT !.reg[id].resolve = None,
                                             !.reg[id].resolve_reject = None],
                       "resolve", id, <<result, state>>)
         IN  IF IsSome(prom.resolve) /\ IsNone(prom.resolve_reject)
             THEN Ret(w1, <<FCall("resolve", prom.resolve, id, result, state), FRemove(id)>>)
             ELSE IF IsNone(prom.resolve) /\ IsSome(prom.resolve_reject)
             THEN Ret(w1, <<FRemove(id)>>)
             ELSE IF IsNone(prom.resolve) /\ IsNone(prom.resolve_reject)
             THEN Ret(w1, <<FRemove(id)>>)
             ELSE Ret(Log(w1, "error", id, "Misconfigured promise"), <<FRemove(id)>>)

promise_resolve(w, id, result, state) ==
    IF Locked(w, id) THEN Ret(Relock(Log(w, "relock", id, "resolve")), <<>>)
    ELSE IF id \notin DOMAIN w.reg
    THEN Ret(Panic(Log(w, "miss", id, "resolve")), <<>>)       \* get_mut(&id).unwrap()
    ELSE LET prom == w.reg[id]
             w1 == Log([Stored(w, id) EXCEPT !.reg[id].resolve = None,
                                             !.reg[id].resolve_reject = None],
                       "resolve", id, <<result, state>>)
         IN  IF IsSome(prom.resolve) /\ IsNone(prom.resolve_reject)
             THEN Ret(w1, <<FCall("resolve", prom.resolve, id, result, state), FRemove(id)>>)
             ELSE IF IsNone(prom.resolve) /\ IsSome(prom.resolve_reject)
             THEN Ret(w1, <<FCall("resolve_reject", prom.resolve_reject, id, Ok(result), state),
                            FRemove(id)>>)
             ELSE IF IsNone(prom.resolve) /\ IsNone(prom.resolve_reject)
             THEN Ret(w1, <<FRemove(id)>>)
             ELSE Ret(Log(w1, "error", id, "Misconfigured promise"), <<FRemove(id)>>)

promise_reject(w, id, error, state) ==
    IF Locked(w, id) THEN Ret(Relock(Log(w, "relock", id, "reject")), <<>>)
    ELSE IF id \notin DOMAIN w.reg
    THEN Ret(Panic(Log(w, "miss", id, "reject")), <<>>)        \* get_mut(&id).unwrap()
    ELSE LET prom == w.reg[id]
             w1 == Log([Stored(w, id) EXCEPT !.reg[id].reject = None,
                                             !.reg[id].resolve_reject = None],
                       "reject", id, <<error, state>>)
         IN  IF IsSome(prom.reject) /\ IsNone(prom.resolve_reject)
             THEN Ret(w1, <<FCall("reject", prom.reject, id, error, state), FRemove(id)>>)
             ELSE IF IsNone(prom.reject) /\ IsSome(prom.resolve_reject)
             THEN Ret(w1, <<FCall("resolve_reject", prom.resolve_reject, id, Err(error), state),
                            FRemove(id)>>)
             ELSE IF IsNone(prom.reject) /\ IsNone(prom.resolve_reject) /\ IsSome(prom.resolve)
             THEN \* the write guard taken in this arm lives until the arm ends, so
                  \* the discard thunk runs with the registry write-locked
                  LET w2 == Log(w1, "warn", id, "Discarding resolve branch")
                      w3 == [w2 EXCEPT !.reg[id].discard = None, !.locked = @ \cup {w.tys[id]}]
                  IN  Ret(w3, (IF IsSome(prom.discard)
                               THEN <<FCall("discard", prom.discard, id, Unit, Unit)>>
                               ELSE <<>>)
                              \o <<FUnlock(w.tys[id]), FRemove(id)>>)
             ELSE Ret(Log(w1, "error", id, "Misconfigured promise"), <<FRemove(id)>>)

\* a register that runs the invoke thunk and never inserts the record
RegisterForgetsInsert(w, promise) ==
    IF Locked(w, promise.id) THEN Ret(Relock(Log(w, "relock", promise.id, "register")), <<>>)
    ELSE Ret(Log(w, "register", promise.id, Unit),
             IF IsSome(promise.register)
             THEN <<FCall("register", promise.register, promise.id, Unit, Unit)>>
             ELSE <<>>)

promise_register(w, promise) ==
    IF Locked(w, promise.id) THEN Ret(Relock(Log(w, "relock", promise.id, "register")), <<>>)
    ELSE Ret(Log(RegistryInsert(w, [promise EXCEPT !.register = None]),
                 "register", promise.id, Unit),
             IF IsSome(promise.register)
             THEN <<FCall("register", promise.register, promise.id, Unit, Unit)>>
             ELSE <<>>)

\* a discard that runs the thunk and forgets the final remove(&id)
DiscardKeepsRecord(w, id) ==
    IF Locked(w, id) THEN Ret(Relock(Log(w, "relock", id, "discard")), <<>>)
    ELSE IF id \in DOMAIN w.reg
    THEN Ret(Log([w EXCEPT !.reg[id].discard = None], "discard", id, Unit),
             IF IsSome(w.reg[id].discard)
             THEN <<FCall("discard", w.reg[id].discard, id, Unit, Unit)>>
             ELSE <<>>)
    ELSE Ret(Log(w, "error", id, "trying to discard complete"), <<>>)

promise_discard(w, id) ==
    IF Locked(w, id) THEN Ret(Relock(Log(w, "relock", id, "discard")), <<>>)
    ELSE IF id \in DOMAIN w.reg
    THEN Ret(Log([w EXCEPT !.reg[id].discard = None], "discard", id, Unit),
             (IF IsSome(w.reg[id].discard)
              THEN <<FCall("discard", w.reg[id].discard, id, Unit, Unit)>>
              ELSE <<>>) \o <<FRemove(id)>>)
    ELSE Ret(Log(w, "error", id, "trying to discard complete"), <<FRemove(id)>>)

\* for id in ids { promise_discard(world, id) }, skipping position `skip`
\* (0-based, -1 to skip none)
DiscardEach(w, ids, i, skip) ==
    IF i > Len(ids) THEN Ret(w, <<>>)
    ELSE Ret(w, (IF i - 1 = skip THEN <<>> ELSE <<FDiscard(ids[i])>>)
                \o <<FDiscardEach(ids, i + 1, skip)>>)

\* the PromiseResult::Await arm of then, map, map_ok, map_err and ok_then: the
\* awaited promise forwards both outcomes to `id`.  then and the maps refuse a
\* promise that has any handler, ok_then only looks at resolve / resolve_reject.
\* an Await arm that registers the nested promise without the forwarders
AwaitNoForward(w, id, p, checkReject) ==
    Ret(Log(w, "await", id, p.id), <<FRegister(p)>>)

\* an Await arm that also resolves the waiting promise at once
AwaitSettlesAtOnce(w, id, p, checkReject) ==
    Ret(Log(w, "await", id, p.id),
        <<FRegister([p EXCEPT !.resolve = [k |-> "fwd_resolve", id |-> id],
                              !.reject = [k |-> "fwd_reject", id |-> id]]),
          FResolve(id, Unit, Unit)>>)

AwaitBoth(w, id, p, checkReject) ==
    IF IsSome(p.resolve) \/ IsSome(p.resolve_reject) \/ (checkReject /\ IsSome(p.reject))
    THEN Ret(Log(w, "error", p.id, "Misconfigured, resolve already defined"), <<>>)
    ELSE Ret(Log(w, "await", id, p.id),
             <<FRegister([p EXCEPT !.resolve = [k |-> "fwd_resolve", id |-> id],
                                   !.reject = [k |-> "fwd_reject", id |-> id]])>>)

\* a settle in which the rejection of or_else's handler is delivered like any other
SettleForwardsReject(w, id, pr, site) ==
    CASE pr.k = "Resolve" -> Ret(w, <<FResolve(id, pr.r, pr.s)>>)
      [] pr.k = "Reject" -> Ret(w, <<FReject(id, pr.e, pr.s)>>)
      [] pr.k = "Await" ->
            IF site \in {"then", "ok_then"} THEN AwaitBoth(w, id, pr.p, site = "then")
            ELSE Ret(w, <<>>)

\* match pr { Resolve => promise_resolve, Reject => promise_reject, Await => .. }
\* as written in the closure named by `site`
Settle(w, id, pr, site) ==
    CASE pr.k = "Resolve" -> Ret(w, <<FResolve(id, pr.r, pr.s)>>)
      [] pr.k = "Reject" ->
            IF site = "or_else"
            THEN Ret(Log(w, "error", id, "catch exit with empty (dropped) error"), <<>>)
            ELSE Ret(w, <<FReject(id, pr.e, pr.s)>>)
      [] pr.k = "Await" ->
            CASE site = "then" -> AwaitBoth(w, id, pr.p, TRUE)
              [] site = "ok_then" -> AwaitBoth(w, id, pr.p, FALSE)
              [] site = "new" ->
                    IF IsSome(pr.p.resolve) \/ IsSome(pr.p.resolve_reject)
                    THEN Ret(Log(w, "error", pr.p.id, "Misconfigured, resolve already defined"),
                             <<>>)
                    ELSE Ret(Log(w, "await", id, pr.p.id),
                             <<FRegister([pr.p EXCEPT !.resolve =
                                              [k |-> "fwd_resolve", id |-> id]])>>)
              [] site = "or_else" ->
                    \* p.resolve is set on the local promise, which is then dropped
                    IF IsSome(pr.p.resolve) \/ IsSome(pr.p.resolve_reject) \/ IsSome(pr.p.reject)
                    THEN Ret(Log(w, "error", id, "Misconfigured, resolve already defined"), <<>>)
                    ELSE Ret(w, <<>>)

\* for promise in self { promise_register(world, promise.map(..).then(..)) }
AnyRegisterLoop(w, any_id, ps, ids, i) ==
    IF i > Len(ps) THEN Ret(w, <<>>)
    ELSE LET m == map_state(w, ps[i], [k |-> "any_tag", any_id |-> any_id,
                                        idx |-> i - 1, ids |-> ids], "AnyM")
             t == then(m.w, m.p, [k |-> "any_then"], "U")
         IN  Ret(t.w, <<FRegister(t.p), FAnyLoop(any_id, ps, ids, i + 1)>>)

\* for promise in self { promise_register(world, promise.with(..).then(..)) }
AllRegisterLoop(w, any_id, ps, i) ==
    IF i > Len(ps) THEN Ret(w, <<>>)
    ELSE LET m == with(w, ps[i], <<any_id, i - 1>>, "AllW")
             t == then(m.w, m.p, [k |-> "all_then"], "U")
         IN  Ret(t.w, <<FRegister(t.p), FAllLoop(any_id, ps, i + 1)>>)

NoneVal == <<"None">>
SomeVal(v) == <<"Some", v>>

\* a store into the first free slot, i.e. in completion order
StoreFirstFree(value, idx, r) ==
    LET free == {i \in 1..Len(value) : value[i][1] # "Some"}
        n == IF free = {} THEN idx + 1 ELSE CHOOSE i \in free : \A j \in free : i <= j
    IN  [value EXCEPT ![n] = SomeVal(r)]

\* a fan-in that waits for every slot to hold an Ok
AllOk(value) == \A i \in 1..Len(value) : value[i][1] = "Some" /\ IsOk(value[i][2])

\* value.get_mut()[idx] = Some(r), idx counted from 0
StoreSlot(value, idx, r) == [value EXCEPT ![idx + 1] = SomeVal(r)]

\* value.get_ref().iter().all(|v| v.is_some())
AllFilled(value) == \A i \in 1..Len(value) : value[i][1] = "Some"

\* the register (invoke) thunks
CallRegister(w, c, id) ==
    CASE c.k = "reg_self" -> Ret(w, <<FRegister(c.p)>>)
      [] c.k = "new_body" ->
            LET res == RunFunc(w, c.f, c.s, Unit) IN Settle(res.w, id, res.pr, "new")
      [] c.k = "timeout_invoke" ->
            Ret(Log([w EXCEPT !.timers = (id :> (w.elapsed + c.d - w.delta)) @@ @],
                    "start", id, w.elapsed), <<>>)
      [] c.k = "send_invoke" -> Ret([w EXCEPT !.requests = @ \cup {id}], <<>>)
      [] c.k = "any_invoke" -> Ret(w, <<FAnyLoop(id, c.ps, c.ids, 1)>>)
      [] c.k = "all_invoke" ->
            Ret([w EXCEPT !.heap = (id :> [value |-> [i \in 1..c.size |-> NoneVal],
                                           freed |-> FALSE]) @@ @],
                <<FAllLoop(id, c.ps, 1)>>)
      [] c.k = "any_fanin" ->
            Ret(Log(w, "winner", c.any_id, c.idx),
                <<FDiscardEach(c.ids, 1, c.idx), FResolve(c.any_id, <<c.state, c.r>>, Unit)>>)
      [] c.k = "all_fanin" ->
            IF w.heap[c.any_id].freed
            THEN Ret([w EXCEPT !.halt = "use_after_free"], <<>>)
            ELSE LET value == StoreSlot(w.heap[c.any_id].value, c.idx, c.r)
                     w1 == [w EXCEPT !.heap[c.any_id].value = value]
                 IN  IF AllFilled(value)
                     THEN Ret([w1 EXCEPT !.heap[c.any_id].freed = TRUE],
                              <<FResolve(c.any_id, [i \in 1..Len(value) |-> value[i][2]], Unit)>>)
                     ELSE Ret(w1, <<>>)

\* the discard thunks
CallDiscard(w, c, id) ==
    CASE c.k = "noop" -> Ret(w, <<>>)
      [] c.k = "timeout_discard" ->
            Ret([w EXCEPT !.timers = [i \in DOMAIN w.timers \ {id} |-> w.timers[i]]], <<>>)
      [] c.k = "send_discard" -> Ret([w EXCEPT !.requests = @ \ {id}], <<>>)
      [] c.k = "discard_id" -> Ret(w, <<FDiscard(c.id)>>)
      [] c.k = "call_orig" ->
            Ret(w, IF IsSome(c.d) THEN <<FCall("discard", c.d, c.self_id, Unit, Unit)>> ELSE <<>>)
      [] c.k = "ok_then_discard" ->
            Ret(w, (IF IsSome(c.d) THEN <<FCall("discard", c.d, c.self_id, Unit, Unit)>>
                    ELSE <<>>) \o <<FDiscard(c.id)>>)
      [] c.k = "ids_discard" -> Ret(w, <<FDiscardEach(c.ids, 1, -1)>>)

\* the split resolve handlers
CallResolve(w, c, result, state) ==
    CASE c.k = "fwd_resolve" -> Ret(w, <<FResolve(c.id, result, state)>>)
      [] c.k = "ok_then_handler" ->
            LET res == RunFunc(w, c.f, state, result)
            IN  Settle(res.w, c.id, res.pr, "ok_then")

\* the split reject handlers
CallReject(w, c, error, state) ==
    CASE c.k = "fwd_reject" -> Ret(w, <<FReject(c.id, error, state)>>)
      [] c.k = "or_else_handler" ->
            LET res == RunFunc(w, c.f, state, error)
            IN  Settle(res.w, c.id, res.pr, "or_else")

\* the combined handlers
CallResolveReject(w, c, result, state) ==
    CASE c.k = "then_handler" ->
            LET res == RunFunc(w, c.f, state, result)
            IN  Settle(res.w, c.id, res.pr, "then")

\* invoking a stored thunk: field names the Option it was taken from, id the
\* promise id it is called with (for handlers: the record it was taken from)
Call(w0, fr) ==
    LET wt == Log(w0, "thunk", fr.id, <<fr.field, fr.c.k>>)
        \* observation: what a handler is called with
        w == IF fr.field \in {"resolve", "reject", "resolve_reject"}
             THEN Log(wt, "handler", fr.id, <<fr.field, fr.x, fr.s>>)
             ELSE wt
    IN  CASE fr.field = "register" -> CallRegister(w, fr.c, fr.id)
          [] fr.field = "discard" -> CallDiscard(w, fr.c, fr.id)
          [] fr.field = "resolve" -> CallResolve(w, fr.c, fr.x, fr.s)
          [] fr.field = "reject" -> CallReject(w, fr.c, fr.x, fr.s)
          [] fr.field = "resolve_reject" -> CallResolveReject(w, fr.c, fr.x, fr.s)

Step(w, fr) ==
    CASE fr.op = "resolve" -> promise_resolve(w, fr.id, fr.r, fr.s)
      [] fr.op = "reject" -> promise_reject(w, fr.id, fr.e, fr.s)
      [] fr.op = "register" -> promise_register(w, fr.p)
      [] fr.op = "discard" -> promise_discard(w, fr.id)
      [] fr.op = "remove" -> RegistryRemove(w, fr.id)
      [] fr.op = "unlock" -> Ret([w EXCEPT !.locked = @ \ {fr.ty}], <<>>)
      [] fr.op = "call" -> Call(w, fr)
      [] fr.op = "discard_each" -> DiscardEach(w, fr.ids, fr.i, fr.skip)
      [] fr.op = "any_loop" -> AnyRegisterLoop(w, fr.any_id, fr.ps, fr.ids, fr.i)
      [] fr.op = "all_loop" -> AllRegisterLoop(w, fr.any_id, fr.ps, fr.i)

RECURSIVE Run(_, _)
\* run the stack to completion; nothing runs after a panic or a relock
Run(w, stack) ==
    IF stack = <<>> \/ Halted(w) THEN w
    ELSE LET r == Step(w, Head(stack)) IN Run(r.w, r.push \o Tail(stack))

(***************************************************************************)
(* The applications.  User bodies: fOk resolves with 1, fErr rejects with  *)
(* 7, fPass hands its input on, fAwait returns a promise to await.         *)
(***************************************************************************)
fOk(n) == [k |-> "ok", name |-> n, v |-> 1]
fErr(n) == [k |-> "err", name |-> n, e |-> 7]
fPass(n) == [k |-> "pass", name |-> n]
\* bodies that resolve with v / reject with e
fOkWith(n, v) == [k |-> "ok", name |-> n, v |-> v]
fErrWith(n, e) == [k |-> "err", name |-> n, e |-> e]
fAwait(n, e) == [k |-> "await", name |-> n, e |-> e]

\* the loop body of the repeat example, and a body that repeats forever
fLoop(limit, d) == [k |-> "loop", name |-> "body", limit |-> limit, d |-> d, result |-> "Done"]
fForever(d) == [k |-> "forever", name |-> "body", d |-> d]

\* a body that resolves with its state plus one
fIncState(n) == [k |-> "inc_state", name |-> n]
\* a body that returns s.then(e): it awaits e and keeps its own state
fStateThen(n, e) == [k |-> "state_then", name |-> n, e |-> e]

Send == [op |-> "send", ty |-> "U"]
Timeout(d) == [op |-> "timeout", d |-> d]
Then(e, f) == [op |-> "then", of |-> e, f |-> f, ty |-> "U"]
MapOk(e, m) == [op |-> "map_ok", of |-> e, m |-> [k |-> m], ty |-> "U"]
OkThen(e, f, ty) == [op |-> "ok_then", of |-> e, f |-> f, ty |-> ty]
OrElse(e, f, ty) == [op |-> "or_else", of |-> e, f |-> f, ty |-> ty]
New(f) == [op |-> "new", ty |-> "U", s |-> Unit, f |-> f]
CommandsMap(s0, m) == [op |-> "commands_map", s |-> s0, m |-> m]
CommandsMapResult(s0, m) == [op |-> "commands_map_result", s |-> s0, m |-> m]
CommandsThen(s0, f) == [op |-> "commands_then", s |-> s0, f |-> f]
MapOkBy(e, m) == [op |-> "map_ok", of |-> e, m |-> m, ty |-> "U"]
MapErrBy(e, m) == [op |-> "map_err", of |-> e, m |-> m, ty |-> "U"]
MapState(e, m) == [op |-> "map", of |-> e, m |-> m, ty |-> "U"]
Fn(k) == [k |-> k]
Comp(f, g) == [k |-> "comp", f |-> Fn(f), g |-> Fn(g)]
With(e, state) == [op |-> "with", of |-> e, s |-> state, ty |-> "U"]
Repeat(s0, f) == [op |-> "repeat", s |-> s0, f |-> f]
AnyOf(els) == [op |-> "any", els |-> els]
AllOf(els) == [op |-> "all", els |-> els]

Handlers == {fOk("f"), fErr("f"), fPass("f"), fAwait("f", Send), fAwait("f", Timeout(1))}

ChainPrograms ==
    {Then(Send, f) : f \in Handlers}
    \cup {MapOk(Then(Send, f), "inc") : f \in {fOk("f"), fErr("f"), fAwait("f", Send)}}
    \cup {Then(Then(Timeout(1), fOk("f")), fPass("g"))}

CatchPrograms ==
    {OrElse(OkThen(Send, f, ty), g, "C") : f \in {fOk("f"), fErr("f")},
                                           g \in {fOk("g"), fErr("g")},
                                           ty \in {"U", "B"}}

AnyPrograms ==
    {AnyOf(<<Send, Send>>), AnyOf(<<Timeout(1), Timeout(1)>>), AnyOf(<<Timeout(1), Timeout(2)>>),
     AnyOf(<<New(fOk("n")), Send>>), AnyOf(<<Send, New(fOk("n"))>>),
     AnyOf(<<Then(Send, fOk("f")), Send>>), AnyOf(<<Then(Send, fAwait("f", Send)), Send>>),
     AnyOf(<<Send, Send, Send>>)}

AllPrograms ==
    {AllOf(<<Send, Send>>), AllOf(<<Timeout(2), Timeout(1)>>), AllOf(<<New(fOk("n")), Send>>),
     AllOf(<<Send, New(fErr("n"))>>), AllOf(<<Send, Send, Send>>),
     AnyOf(<<AllOf(<<Send, Send>>), Send>>)}

RepeatPrograms ==
    {Repeat(0, fLoop(limit, d)) : limit \in 0..2, d \in 0..1}
    \cup {Then(Repeat(0, fLoop(1, 1)), fPass("g")),
          Repeat(0, fForever(1)),
          AnyOf(<<Repeat(0, fForever(1)), Timeout(2)>>)}

\* a timer started with state 0 and continued by a body
TimerChain(d) == Then(With(Timeout(d), 0), fIncState("f"))
TimerPrograms == {TimerChain(d) : d \in 1..2}

\* a short timer raced against one so long that no single frame spans both:
\* a timer started in a frame of length delta ends at elapsed + duration - delta
\* and the next frame adds at most MaxDelta
LongTimer == 2 * MaxDelta + 1
TimerRace == AnyOf(<<Timeout(1), Timeout(LongTimer)>>)

\* two maps in a row and the single map of the composed closure, over the
\* result (map_ok) and over the state (map)
Transforms == {"inc", "dbl"}
MapPrograms ==
    {MapOkBy(MapOkBy(Send, Fn(f)), Fn(g)) : f, g \in Transforms}
    \cup {MapOkBy(Send, Comp(f, g)) : f, g \in Transforms}
    \cup {MapState(MapState(With(Send, 2), Fn(f)), Fn(g)) : f, g \in Transforms}
    \cup {MapState(With(Send, 2), Comp(f, g)) : f, g \in Transforms}

\* a.then(f1).then(f2) and a.then(f1).then(f2).then(f3), after examples/simple.rs
FirstHandlers ==
    {fOk("f1"), fErr("f1"), fPass("f1"), fAwait("f1", Send), fAwait("f1", Timeout(1))}
SeqPrograms ==
    {Then(Then(Send, f1), f2) : f1 \in FirstHandlers,
                                f2 \in {fPass("f2"), fAwait("f2", Timeout(1))}}
    \cup {Then(Then(Then(Timeout(1), fAwait("f1", Send)), fOk("f2")), fPass("f3"))}

\* x.ok_then(f).or_else(g), x a request carrying state 2, on its own and
\* continued by a then; and an ok_then continued by a then
RecoverChain(f, ty) == OrElse(OkThen(With(Send, 2), f, ty), fOkWith("g", 4), "C")
RecoverPrograms ==
    {RecoverChain(f, ty) : f \in {fOkWith("f", 3), fErrWith("f", 7)}, ty \in {"U", "B"}}
    \cup {Then(RecoverChain(fErrWith("f", 7), "B"), fPass("h")),
          Then(OkThen(Send, fOk("f"), "B"), fPass("h"))}

\* one map_ok and one map_err over a request carrying state 2
\* a recovery whose handler g rejects too, followed by one more handler
DropPrograms ==
    {Then(OrElse(OkThen(With(Send, 2), fErrWith("f", 7), ty), fErrWith("g", 8), "C"), fPass("h")) :
        ty \in {"U", "B"}}
\* a request given state 2, a step that changes, keeps or hands on the state,
\* and a last handler that receives what the step left
StatePrograms ==
    {Then(Then(With(Send, 2), f), fPass("h")) :
        f \in {fIncState("f"), fOkWith("f", 3), fStateThen("f", Send)}}
\* chains started with commands.promise(|| 2)
CommandsPrograms ==
    {CommandsMap(2, Fn(m)) : m \in Transforms}
    \cup {CommandsMapResult(2, Fn(m)) : m \in Transforms}
    \cup {CommandsThen(2, fPass("f")), Then(CommandsMap(2, Fn("inc")), fPass("f"))}
\* a recovery whose handler g returns a request to await
AwaitCatchPrograms ==
    {OrElse(OkThen(With(Send, 2), fErrWith("f", 7), ty), fAwait("g", Send), "C") : ty \in {"U", "B"}}
\* Promise::new / Promise::start with a body that returns a request to await
\* all applied to a vector with no promise in it
EmptyPrograms == {AllOf(<<>>)}
NewAwaitPrograms == {New(fAwait("n", Send))}
PassPrograms ==
    {MapOkBy(With(Send, 2), Fn(m)) : m \in Transforms}
    \cup {MapErrBy(With(Send, 2), Fn(m)) : m \in Transforms}

Programs ==
    AwaitCatchPrograms \cup NewAwaitPrograms \cup CommandsPrograms \cup StatePrograms \cup DropPrograms \cup RecoverPrograms \cup PassPrograms \cup SeqPrograms \cup MapPrograms \cup {TimerRace} \cup ChainPrograms \cup CatchPrograms \cup AnyPrograms \cup AllPrograms \cup RepeatPrograms
    \cup TimerPrograms \cup EmptyPrograms

(***************************************************************************)
(* The host.                                                               *)
(***************************************************************************)
NewWorld ==
    [reg |-> <<>>, tys |-> <<>>, next |-> 0, timers |-> <<>>, requests |-> {},
     elapsed |-> 0, delta |-> 0, heap |-> <<>>, log |-> <<>>, halt |-> "none", of |-> <<>>,
     locked |-> {}, relock |-> "panic", ext_discards |-> 0, ticked |-> FALSE]

Init ==
    /\ world = NewWorld
    /\ queue = <<>>
    /\ program \in Programs
    /\ spawned = FALSE

\* commands.add(promise): the promise value is built and queued
AddPromise ==
    /\ ~spawned /\ ~Halted(world)
    /\ LET b == Build(world, program)
       IN  /\ world' = b.w
           /\ queue' = Append(queue, [k |-> "register", p |-> b.p])
    /\ spawned' = TRUE
    /\ UNCHANGED program

\* a write that calls resolve whatever the payload is
WriteAlwaysResolves(cmd) ==
    CASE cmd.k = "register" -> FRegister(cmd.p)
      [] cmd.k = "result" -> FResolve(cmd.id, cmd.result[2], Unit)
      [] cmd.k = "discard" -> FDiscard(cmd.id)

\* impl Command for PromiseCommand / for Promise, and a command closure that
\* calls promise_discard
Write(cmd) ==
    CASE cmd.k = "register" -> FRegister(cmd.p)
      [] cmd.k = "result" ->
            IF IsOk(cmd.result) THEN FResolve(cmd.id, cmd.result[2], Unit)
            ELSE FReject(cmd.id, cmd.result[2], Unit)
      [] cmd.k = "discard" -> FDiscard(cmd.id)

\* the promise a queued command is about
CmdId(cmd) == <<cmd.k, IF cmd.k = "register" THEN cmd.p.id ELSE cmd.id>>

\* the host's synchronization point: every queued command is applied, in order.
\* relock is what a re-entrant write lock does to the thread during this pass.
ApplyCommands ==
    /\ queue # <<>> /\ ~Halted(world)
    /\ \E relock \in {"panic", "deadlock"} :
         LET w == Run(Log([world EXCEPT !.relock = relock], "flush", 0,
                          [i \in 1..Len(queue) |-> CmdId(queue[i])]),
                      [i \in 1..Len(queue) |-> Write(queue[i])])
         IN  world' = [w EXCEPT !.relock = "panic", !.ticked = FALSE]
    /\ queue' = <<>>
    /\ UNCHANGED <<program, spawned>>

RECURSIVE Orders(_)
\* the orders in which a HashMap may yield the keys S
Orders(S) ==
    IF S = {} THEN {<<>>}
    ELSE UNION {{<<x>> \o o : o \in Orders(S \ {x})} : x \in S}

RECURSIVE UsesTime(_)
\* the program starts a timer at some point: a timeout in the expression or in
\* a body it runs.  Time is read by timers only (Timers::time, process_timers),
\* so the frames of a program without one are not told apart.
UsesTime(e) ==
    LET BodyUsesTime(f) == f.k \in {"loop", "forever"} \/ (f.k \in {"await", "state_then"} /\ UsesTime(f.e))
    IN  CASE e.op = "timeout" -> TRUE
          [] e.op = "repeat" -> BodyUsesTime(e.f)
          [] e.op = "send" -> FALSE
          [] e.op = "new" -> BodyUsesTime(e.f)
          [] e.op \in {"commands_map", "commands_map_result"} -> FALSE
          [] e.op = "commands_then" -> BodyUsesTime(e.f)
          [] e.op \in {"then", "ok_then", "or_else"} -> UsesTime(e.of) \/ BodyUsesTime(e.f)
          [] e.op \in {"map_ok", "map_err", "map", "with"} -> UsesTime(e.of)
          [] e.op \in {"any", "all"} -> \E n \in 1..Len(e.els) : UsesTime(e.els[n])

\* a process_timers that drops the expired timers without queueing a command
ProcessTimersDrop(w, q, order) ==
    [w |-> [w EXCEPT !.timers = [i \in {j \in DOMAIN w.timers : ~(w.elapsed >= w.timers[j])}
                                   |-> w.timers[i]]],
     q |-> q]

\* timer::process_timers after the frame's time update
process_timers(w, q, order) ==
    [w |-> [w EXCEPT !.timers = [i \in {j \in DOMAIN w.timers : ~(w.elapsed >= w.timers[j])}
                                   |-> w.timers[i]]],
     q |-> q \o [n \in 1..Len(order) |-> [k |-> "result", id |-> order[n], result |-> Ok(Unit)]]]

\* One frame's time update followed by process_timers.  process_timers is an
\* ordinary system: it runs once per frame and the commands of a frame are
\* applied before the next frame starts, so it does not run again while
\* commands queued since its last run are waiting (ticked).
Tick ==
    /\ ~Halted(world) /\ ~world.ticked /\ UsesTime(program)
    /\ \E d \in 1..MaxDelta :
         /\ world.elapsed + d <= MaxTime
         /\ LET w1 == [world EXCEPT !.elapsed = @ + d, !.delta = d]
                due == {j \in DOMAIN w1.timers : w1.elapsed >= w1.timers[j]}
            IN  /\ Len(queue) + Cardinality(due) <= MaxQueue
                /\ \E order \in Orders(due) :
                     LET r == process_timers(w1, queue, order)
                     IN  world' = [r.w EXCEPT !.ticked = (r.q # <<>>)] /\ queue' = r.q
    /\ UNCHANGED <<program, spawned>>

\* process_requests: a finished task's result is queued and the task dropped
process_requests ==
    /\ ~Halted(world) /\ Len(queue) < MaxQueue
    /\ \E id \in world.requests, result \in {Ok(5), Err(9)} :
         /\ world' = [world EXCEPT !.requests = @ \ {id}]
         /\ queue' = Append(queue, [k |-> "result", id |-> id, result |-> result])
    /\ UNCHANGED <<program, spawned>>

\* application code cancels the work of an adapter promise it started
ExtDiscard ==
    /\ ~Halted(world) /\ Len(queue) < MaxQueue
    /\ world.ext_discards < MaxExtDiscard
    /\ \E id \in world.requests :
         /\ world' = [world EXCEPT !.ext_discards = @ + 1]
         /\ queue' = Append(queue, [k |-> "discard", id |-> id])
    /\ UNCHANGED <<program, spawned>>

Next == AddPromise \/ ApplyCommands \/ Tick \/ process_requests \/ ExtDiscard

Spec == Init /\ [][Next]_vars

(***************************************************************************)
(* Observations on the trace of the run so far.                            *)
(***************************************************************************)
Ids == 1..world.next
LogIdx == 1..Len(world.log)
Num(ev, id) == Cardinality({i \in LogIdx : world.log[i].ev = ev /\ world.log[i].id = id})
\* the terminal operations applied to the record of id
Ops(id) == Num("resolve", id) + Num("reject", id) + Num("discard", id)
Registered(id) == Num("register", id) > 0
Pending(id) == id \in DOMAIN world.reg
Discarded(id) == Num("discard", id) > 0
\* nothing is in flight: no queued command, no running timer, no running request
Quiescent == queue = <<>> /\ DOMAIN world.timers = {} /\ world.requests = {}
\* the commands applied so far, as <<kind, id>>
Applied == UNION {{world.log[i].x[n] : n \in 1..Len(world.log[i].x)} :
                    i \in {j \in LogIdx : world.log[j].ev = "flush"}}
\* the application's own discards went to the head of the chain only
HeadEventsOnly == \A c \in Applied : c[1] = "discard" => c[2] = 1

\* C1: in a registered chain built from then, map_ok and or_else, under external
\* resolve / reject / discard events on the chain's head, every promise node has
\* exactly one of resolve, reject, discard applied, exactly once: never twice,
\* and never zero once the head has settled and nothing is in flight any more.
C1_ExactlyOneSettle ==
    (program \in ChainPrograms \cup CatchPrograms /\ ~Halted(world) /\ HeadEventsOnly)
    => \A id \in Ids :
         /\ Ops(id) <= 1
         /\ (Registered(id) /\ Ops(1) >= 1 /\ Quiescent) => Ops(id) = 1

RECURSIVE Beneath(_)
\* the promises a promise is built over, transitively
Beneath(id) ==
    LET d == {world.of[id][n] : n \in 1..Len(world.of[id])}
    IN  d \cup UNION {Beneath(c) : c \in d}

\* position in the trace of the first event ev on id (0 if none)
First(ev, id) ==
    IF Num(ev, id) = 0 THEN 0
    ELSE CHOOSE i \in LogIdx :
           /\ world.log[i].ev = ev /\ world.log[i].id = id
           /\ \A j \in 1..(i - 1) : ~(world.log[j].ev = ev /\ world.log[j].id = id)
\* a resolve, reject or combined handler stored on id ran at position i
HandlerRun(i, id) ==
    /\ world.log[i].ev = "thunk" /\ world.log[i].id = id
    /\ world.log[i].x[1] \in {"resolve", "reject", "resolve_reject"}

\* C2: when discard is applied to a pending promise P built by then / map, every
\* promise registered beneath P is discarded too: its record is in no registry
\* any more, and no handler of P or of a promise beneath it runs afterwards.
C2_DiscardReachesNested ==
    ~Halted(world) =>
      \A P \in Ids :
        (Discarded(P) /\ Len(world.of[P]) = 1) =>
          \A c \in Beneath(P) :
            /\ Registered(c) => ~Pending(c)
            /\ \A i \in LogIdx : i > First("discard", P) => ~HandlerRun(i, c) /\ ~HandlerRun(i, P)

AnyIds == {id \in Ids : world.tys[id] = "Any"}
AllIds == {id \in Ids : world.tys[id] = "All"}
Resolved(id) == Num("resolve", id) > 0
Settled(id) == Num("resolve", id) + Num("reject", id) > 0
\* the result an element settled with, as the Result its continuation receives
ResultOf(id) ==
    IF Num("resolve", id) > 0 THEN Ok(world.log[First("resolve", id)].x[1])
    ELSE Err(world.log[First("reject", id)].x[1])
StateOf(id) ==
    IF Num("resolve", id) > 0 THEN world.log[First("resolve", id)].x[2]
    ELSE world.log[First("reject", id)].x[2]
Winners(A) == {world.log[i].x : i \in {j \in LogIdx : world.log[j].ev = "winner" /\ world.log[j].id = A}}

\* C3: a resolved any promise was resolved exactly once, with the state and the
\* result of exactly one element, and each other element had exactly one discard
\* applied to it, whether or not it had started its external work.
C3_AnyOneWinnerRestDiscarded ==
    \A A \in AnyIds :
      Resolved(A) =>
        /\ Num("resolve", A) = 1
        /\ Cardinality(Winners(A)) = 1
        /\ \A n \in 1..Len(world.of[A]) :
             IF n - 1 \in Winners(A)
             THEN world.log[First("resolve", A)].x[1]
                    = <<StateOf(world.of[A][n]), ResultOf(world.of[A][n])>>
             ELSE Num("discard", world.of[A][n]) = 1

\* C4: an all promise is resolved if and only if each of its elements has
\* resolved or rejected, and it is resolved at most once.
C4_AllIffEverySettled ==
    \A A \in AllIds :
      /\ Resolved(A) <=> (Registered(A) /\ \A n \in 1..Len(world.of[A]) : Settled(world.of[A][n]))
      /\ Num("resolve", A) <= 1

\* C5: position i of the vector an all promise resolves with is the result of
\* element i, whatever the order in which the elements settled.
C5_AllKeepsInputOrder ==
    \A A \in AllIds :
      Resolved(A) =>
        LET vec == world.log[First("resolve", A)].x[1]
        IN  /\ Len(vec) = Len(world.of[A])
            /\ \A n \in 1..Len(vec) : vec[n] = ResultOf(world.of[A][n])

SettleAt(id) == IF Num("resolve", id) > 0 THEN First("resolve", id) ELSE First("reject", id)

\* an all promise resolved although one of its elements rejected
C4_Witness ==
    /\ ~Halted(world)
    /\ \E A \in AllIds :
         /\ Resolved(A)
         /\ \E n \in 1..Len(world.of[A]) : Num("reject", world.of[A][n]) > 0

\* an all promise resolved whose elements settled against the input order with
\* different results
C5_Witness ==
    \E A \in AllIds :
      /\ Resolved(A)
      /\ \E n, m \in 1..Len(world.of[A]) :
           /\ n < m
           /\ SettleAt(world.of[A][m]) < SettleAt(world.of[A][n])
           /\ ResultOf(world.of[A][n]) # ResultOf(world.of[A][m])

Missed == {i \in LogIdx : world.log[i].ev = "miss"}

\* C6: a resolve or reject aimed at an id that has no record is reported and
\* nothing else: the host does not panic or stop.
C6_AbsentIdIsNonFatal ==
    Missed # {} => ~Halted(world)

LastFlush ==
    IF Num("flush", 0) = 0 THEN 0
    ELSE CHOOSE i \in LogIdx :
           /\ world.log[i].ev = "flush"
           /\ \A j \in LogIdx : world.log[j].ev = "flush" => j <= i
\* the elements of A that the commands of the latest flush deliver a result to,
\* each still untouched when the flush began
Delivered(A) ==
    LET cmds == world.log[LastFlush].x
    IN  {n \in 1..Len(world.of[A]) :
           \E k \in 1..Len(cmds) :
             /\ cmds[k][1] = "result"
             /\ cmds[k][2] \in {world.of[A][n]} \cup Beneath(world.of[A][n])
             /\ \A i \in 1..(LastFlush - 1) :
                  world.log[i].id = cmds[k][2]
                    => world.log[i].ev \notin {"resolve", "reject", "discard", "miss"}}

\* C7: when one flush of the command queue carries the results of two pending
\* elements of an any promise, the first applied wins and the second neither
\* resolves the any promise again nor crashes the host.
C7_SamePassSecondIsIgnored ==
    \A A \in AnyIds :
      (LastFlush > 0 /\ Cardinality(Delivered(A)) >= 2) =>
        /\ ~Halted(world)
        /\ Num("resolve", A) <= 1

Awaited == {<<world.log[i].id, world.log[i].x>> : i \in {j \in LogIdx : world.log[j].ev = "await"}}

\* C8: when O = self.then(f) is discarded while it waits for the promise N that
\* f returned, N is discarded as well and its record is removed.
C8_DiscardReachesAwaited ==
    ~Halted(world) =>
      \A on \in Awaited :
        (Discarded(on[1]) /\ ~Settled(on[2])) => (Discarded(on[2]) /\ ~Pending(on[2]))

AllElems == UNION {{world.of[A][n] : n \in 1..Len(world.of[A])} : A \in AllIds}

\* C9: discarding an all promise discards only the elements still pending: no
\* discard is attempted on, and no error reported for, an element whose record
\* is already gone.
C9_AllDiscardsOnlyPending ==
    \A i \in LogIdx :
      (world.log[i].ev = "error" /\ world.log[i].x = "trying to discard complete")
        => world.log[i].id \notin AllElems

\* C10: a promise becomes terminal once: after the first resolve, reject or
\* discard on it has returned its record is gone, and no thunk stored on a
\* promise is invoked twice.
C10_TerminalOnce ==
    /\ ~Halted(world) => \A id \in Ids : Ops(id) >= 1 => ~Pending(id)
    /\ \A i, j \in LogIdx :
         (i < j /\ world.log[i].ev = "thunk" /\ world.log[j].ev = "thunk"
                /\ world.log[i].id = world.log[j].id)
           => world.log[i].x # world.log[j].x

\* a second operation was attempted on a promise that had already completed,
\* and found nothing to run
C10_Witness ==
    /\ ~Halted(world)
    /\ \E i \in LogIdx :
         /\ world.log[i].ev = "error" /\ world.log[i].x = "trying to discard complete"
         /\ Ops(world.log[i].id) = 1
         /\ \E j \in 1..(i - 1) : world.log[j].ev = "thunk" /\ world.log[j].id = world.log[i].id

\* the repeat expression of the program, if it has one (on its own, continued by
\* then, or raced against a timeout in an any)
IsRepeat(e) == e.op = "repeat"
RepeatExpr ==
    IF IsRepeat(program) THEN program
    ELSE IF program.op = "then" /\ IsRepeat(program.of) THEN program.of
    ELSE IF program.op = "any" /\ IsRepeat(program.els[1]) THEN program.els[1]
    ELSE [op |-> "none"]
\* Promise::repeat builds the first iteration first: its Promise::new is 1 and
\* the repeat promise handed to the application is 2
RepeatId == 2
\* the positions in the trace at which the loop body was invoked
BodyCalls == {i \in LogIdx : world.log[i].ev = "call" /\ world.log[i].x[1] = "body"}

\* C11: when the body of repeat(s0, f) yields Continue on iterations 1..k-1 and
\* Break(r) on iteration k, the repeat promise resolves once, with r, after
\* exactly k invocations of f; f never runs a (k+1)-th time, and invocation j
\* receives the state invocation j-1 left.
C11_RepeatBreaksAfterK ==
    (IsRepeat(RepeatExpr) /\ RepeatExpr.f.k = "loop") =>
      LET k == RepeatExpr.f.limit + 1
      IN  /\ Cardinality(BodyCalls) <= k
          /\ Num("resolve", RepeatId) <= 1
          /\ \A i \in BodyCalls :
               world.log[i].x[2] = RepeatExpr.s + Cardinality({j \in BodyCalls : j < i})
          /\ Resolved(RepeatId) =>
               /\ Cardinality(BodyCalls) = k
               /\ world.log[First("resolve", RepeatId)].x = <<RepeatExpr.f.result, RepeatExpr.s + k>>
          /\ (Registered(RepeatId) /\ Quiescent /\ ~Halted(world)) => Resolved(RepeatId)

\* a loop that took three iterations, each waiting for a timer, has resolved
C11_Witness ==
    /\ IsRepeat(RepeatExpr) /\ RepeatExpr.f.k = "loop"
    /\ RepeatExpr.f.limit = 2 /\ RepeatExpr.f.d = 1
    /\ Resolved(RepeatId) /\ Cardinality(BodyCalls) = 3

\* C12: a repeat whose body always yields Continue never resolves by itself,
\* and once the repeat promise has been discarded from outside its body is not
\* invoked again.
C12_ForeverStopsOnDiscard ==
    (IsRepeat(RepeatExpr) /\ RepeatExpr.f.k = "forever") =>
      /\ ~Resolved(RepeatId)
      /\ Discarded(RepeatId) => \A i \in BodyCalls : i < First("discard", RepeatId)

\* the time at which the timer promise id was started (its invoke thunk ran)
StartedAt(id) == world.log[First("start", id)].x
\* in TimerChain the timer is 1, its with is 2 and the chain's last promise is 3
TimerChainId == 3

\* C13: a timer of duration d started with state 0 and continued by a body that
\* resolves with state + 1 resolves the chain at most once, with state 1, and has
\* resolved it once d units of time have passed since it was started and the
\* queued commands are applied, however many further ticks follow.
C13_TimerChainResolvesOnce ==
    (program \in TimerPrograms) =>
      /\ Num("resolve", TimerChainId) <= 1
      /\ Num("reject", TimerChainId) + Num("discard", TimerChainId) = 0
      /\ Resolved(TimerChainId) => world.log[First("resolve", TimerChainId)].x = <<Unit, 1>>
      /\ (/\ Num("start", 1) > 0 /\ queue = <<>> /\ ~Halted(world)
          /\ world.elapsed - StartedAt(1) >= program.of.of.d)
           => Resolved(TimerChainId)

\* the chain resolved and time went on afterwards
C13_Witness ==
    /\ program \in TimerPrograms
    /\ Resolved(TimerChainId)
    /\ world.elapsed >= StartedAt(1) + program.of.of.d + 1

\* the commands applied so far or still queued that deliver a result to id
ResultCommands(id) ==
    {i \in LogIdx : world.log[i].ev = "flush"
                    /\ \E n \in 1..Len(world.log[i].x) : world.log[i].x[n] = <<"result", id>>}
QueuedResults(id) == {n \in 1..Len(queue) : queue[n].k = "result" /\ queue[n].id = id}

Transform(k, v) == IF k = "inc" THEN v + 1 ELSE 2 * v
\* the two transforms of a map program, in the order they apply
FirstMap == IF program.m.k = "comp" THEN program.m.f.k ELSE program.of.m.k
SecondMap == IF program.m.k = "comp" THEN program.m.g.k ELSE program.m.k
\* the last promise Build allocated is the one the expression denotes
FinalId == world.next
\* promise 1 is the request p; in the state programs promise 2 gives it state 2
MapsState == program.op = "map"
SourceId == IF MapsState THEN 2 ELSE 1

\* C15: p.map(f).map(g) and p.map(|x| g(f(x))) both settle exactly when p does,
\* once, with g(f(x)) in the mapped component (the Ok result for map_ok, the
\* state for map) and the other components as p delivered them.
C15_MapComposes ==
    (program \in MapPrograms /\ world.next > 0) =>
      /\ Num("resolve", FinalId) + Num("reject", FinalId) <= 1
      /\ (Settled(SourceId) /\ ~Halted(world)) => Settled(FinalId)
      /\ Settled(FinalId) =>
           /\ Settled(SourceId)
           /\ LET x == ResultOf(SourceId)
                  s == StateOf(SourceId)
              IN  IF MapsState
                  THEN /\ ResultOf(FinalId) = x
                       /\ StateOf(FinalId) = Transform(SecondMap, Transform(FirstMap, s))
                  ELSE /\ StateOf(FinalId) = s
                       /\ ResultOf(FinalId) =
                            IF IsOk(x) THEN Ok(Transform(SecondMap, Transform(FirstMap, x[2])))
                            ELSE x

\* inc then dbl over a request that resolved with 5 gave 12, in two maps
C15_Witness ==
    /\ program = MapOkBy(MapOkBy(Send, Fn("inc")), Fn("dbl"))
    /\ Num("resolve", 3) = 1
    /\ ResultOf(3) = Ok(12)

\* the instantiations PromiseRegistry<R, E, S> is used at, and the ids each
\* of these registries holds
RegistryTypes == {world.tys[id] : id \in Ids}
PromiseRegistry(ty) == {id \in DOMAIN world.reg : world.reg[id].ty = ty}

\* C16: between two command flushes an id is in at most one typed registry, the
\* one of the type it was created for, under its own key, and only while
\* pending: it was registered and no resolve, reject or discard was applied
\* to it.
C16_RegistryHoldsPendingOnly ==
    ~Halted(world) =>
      /\ DOMAIN world.reg \subseteq Ids
      /\ \A id \in Ids :
           /\ Cardinality({ty \in RegistryTypes : id \in PromiseRegistry(ty)}) <= 1
           /\ Pending(id) =>
                /\ world.reg[id].id = id
                /\ id \in PromiseRegistry(world.tys[id])
                /\ Registered(id)
                /\ Ops(id) = 0
           /\ (~Registered(id) \/ Ops(id) > 0) => ~Pending(id)

\* two registries hold a pending promise each, and a third promise has
\* completed and left its registry
C16_Witness ==
    /\ ~Halted(world)
    /\ \E a, b, c \in Ids :
         /\ Pending(a) /\ Pending(b) /\ world.tys[a] # world.tys[b]
         /\ Registered(c) /\ Ops(c) > 0 /\ ~Pending(c)

(***************************************************************************)
(* The identity allocator on its own: threads start and exit, and any live *)
(* thread calls PromiseId::new.  world holds the live threads, the number  *)
(* of threads ever started (std never reuses a ThreadId), each live        *)
(* thread's PROMISE_LOCAL_ID, which thread_local! initialises to 0, and    *)
(* the ids returned so far in the order of the calls.                      *)
(***************************************************************************)
AllocInit ==
    /\ world = [threads |-> {1}, started |-> 1, local |-> [t \in {1} |-> 0], issued |-> <<>>]
    /\ queue = <<>>
    /\ program = "PromiseId"
    /\ spawned = FALSE

ThreadSpawn ==
    /\ world.started < MaxThreads
    /\ LET t == world.started + 1
       IN  world' = [world EXCEPT !.threads = @ \cup {t}, !.started = t,
                                  !.local = [u \in world.threads \cup {t} |->
                                               IF u = t THEN 0 ELSE world.local[u]]]
    /\ UNCHANGED <<queue, program, spawned>>

ThreadExit ==
    /\ \E t \in world.threads :
         world' = [world EXCEPT !.threads = @ \ {t},
                                !.local = [u \in world.threads \ {t} |-> world.local[u]]]
    /\ UNCHANGED <<queue, program, spawned>>

NewId ==
    /\ Len(world.issued) < MaxIds
    /\ \E t \in world.threads :
         LET r == PromiseId_new_on(world.local, t)
         IN  world' = [world EXCEPT !.local = r.local, !.issued = Append(@, r.id)]
    /\ UNCHANGED <<queue, program, spawned>>

AllocNext == ThreadSpawn \/ ThreadExit \/ NewId
AllocSpec == AllocInit /\ [][AllocNext]_vars

\* C17: no two calls of PromiseId::new returned the same id: of two ids of one
\* thread the later has the larger local counter, and ids with equal local
\* counters come from different threads.
C17_IdsNeverRepeat ==
    \A i, j \in 1..Len(world.issued) :
      i < j =>
        /\ world.issued[i] # world.issued[j]
        /\ world.issued[i].thread = world.issued[j].thread
             => world.issued[i].local < world.issued[j].local
        /\ world.issued[i].local = world.issued[j].local
             => world.issued[i].thread # world.issued[j].thread

\* one thread allocated twice, and a thread started after another had exited
\* allocated the same local number as an earlier one
C17_Witness ==
    \E i, j, k \in 1..Len(world.issued) :
      /\ i < j /\ world.issued[i].thread = world.issued[j].thread
      /\ world.issued[k].local = world.issued[i].local
      /\ world.issued[k].thread # world.issued[i].thread
      /\ world.issued[i].thread \notin world.threads

RECURSIVE HandlersOf(_)
\* the handlers f1, f2, ... of a chain of thens, in chain order; fk is stored
\* on promise k and settles promise k + 1
HandlersOf(e) == IF e.op = "then" THEN Append(HandlersOf(e.of), e.f) ELSE <<>>
\* the positions in the trace where the handler called name was run
CallsOf(name) == {i \in LogIdx : world.log[i].ev = "call" /\ world.log[i].x[1] = name}
\* the handler returns Resolve or Reject rather than Await
Immediate(f) == f.k \in {"ok", "err", "pass"}
\* no command flush began between positions i and j of the trace
SamePass(i, j) == \A n \in (i + 1)..(j - 1) : world.log[n].ev # "flush"
\* the promises that the handler settling O returned in an Await
NestedOf(O) == {on[2] : on \in {x \in Awaited : x[1] = O}}

\* C18: in a.then(f1).then(f2)... each handler runs at most once, fk runs in
\* the pass in which promise k settled and after it, f(k+1) runs after fk, in
\* the same pass when fk returned Resolve or Reject, and in the pass in which
\* the nested promise settled, not before, when fk returned Await(nested).
C18_ChainRunsInOrder ==
    (program \in SeqPrograms) =>
      LET hs == HandlersOf(program)
      IN  \A k \in 1..Len(hs) :
            LET ck == CallsOf(hs[k].name)
            IN  /\ Cardinality(ck) <= 1
                /\ \A i \in ck :
                     Settled(k) /\ SettleAt(k) < i /\ SamePass(SettleAt(k), i)
                /\ k < Len(hs) =>
                     LET cn == CallsOf(hs[k + 1].name)
                     IN  /\ \A j \in cn : \E i \in ck : i < j
                         /\ (Immediate(hs[k]) /\ ck # {} /\ ~Halted(world)) =>
                              cn # {} /\ \A i \in ck, j \in cn : SamePass(i, j)
                         /\ ~Immediate(hs[k]) =>
                              /\ \A j \in cn :
                                   \E N \in NestedOf(k + 1) :
                                     /\ Settled(N) /\ SettleAt(N) < j
                                     /\ SamePass(SettleAt(N), j)
                              /\ ~Halted(world) =>
                                   \A N \in NestedOf(k + 1) : Settled(N) => cn # {}

\* the three handlers of the long chain ran in order: f2 in a later pass than
\* f1, which awaited a request, and f3 in the pass of f2
C18_Witness ==
    /\ program \in SeqPrograms /\ Len(HandlersOf(program)) = 3
    /\ \E i \in CallsOf("f1"), j \in CallsOf("f2"), n \in CallsOf("f3") :
         i < j /\ j < n /\ ~SamePass(i, j) /\ SamePass(j, n)

\* the positions in the trace where resolve / reject found the record of its id
OpsAt(ev) == {i \in LogIdx : world.log[i].ev = ev}
\* the handlers taken from the record of id that were run after position i
HandlersAfter(i, id) ==
    {j \in LogIdx : j > i /\ world.log[j].ev = "handler" /\ world.log[j].id = id}
\* the operation at position i went on to call the handler `field` of the
\* record of id with (x, s)
CalledAt(i, id, field, x, s) ==
    /\ i + 2 <= Len(world.log)
    /\ world.log[i + 2] = Ev("handler", id, <<field, x, s>>)
\* ... and no other handler of that record was run
RunsAt(i, id, field, x, s) ==
    /\ CalledAt(i, id, field, x, s)
    /\ HandlersAfter(i, id) = {i + 2}

\* C19: resolve(id, value, state) on a pending record runs the split resolve
\* handler with (value, state) if the record stores one, else the combined
\* handler with (Ok(value), state) if it stores one, else no handler; it never
\* runs more than one, and once it has returned the record is gone.
C19_ResolveDispatch ==
    \A i \in OpsAt("resolve") :
      LET id == world.log[i].id
          value == world.log[i].x[1]
          state == world.log[i].x[2]
          had == world.log[i - 1].x
      IN  /\ world.log[i - 1].ev = "stored" /\ world.log[i - 1].id = id
          /\ Cardinality(HandlersAfter(i, id)) <= 1
          /\ IF had.resolve THEN RunsAt(i, id, "resolve", value, state)
             ELSE IF had.resolve_reject THEN RunsAt(i, id, "resolve_reject", Ok(value), state)
             ELSE HandlersAfter(i, id) = {}
          /\ ~Halted(world) => ~Pending(id)

\* all three arms were taken in one run: a split handler, a combined handler
\* and a record without handlers
C19_Witness ==
    /\ ~Halted(world)
    /\ \E i, j, n \in OpsAt("resolve") :
         /\ world.log[i - 1].x.resolve
         /\ ~world.log[j - 1].x.resolve /\ world.log[j - 1].x.resolve_reject
         /\ ~world.log[n - 1].x.resolve /\ ~world.log[n - 1].x.resolve_reject

\* the discard thunks invoked with id after position i: the one stored on the
\* record, and the original thunk it wraps when it calls that with the same id
DiscardThunksAfter(i, id) ==
    {j \in LogIdx : /\ j > i /\ world.log[j].ev = "thunk" /\ world.log[j].id = id
                    /\ world.log[j].x[1] = "discard"}
\* the discard thunk stored on the record of id was invoked once, right after
\* the warning at position i + 1, if there was one, and no thunk twice
DiscardedOnce(i, id, had) ==
    /\ had =>
         /\ i + 2 <= Len(world.log)
         /\ i + 2 \in DiscardThunksAfter(i, id)
    /\ ~had => DiscardThunksAfter(i, id) = {}
    /\ \A j, n \in DiscardThunksAfter(i, id) : j # n => world.log[j].x # world.log[n].x

\* C20: reject(id, error, state) on a pending record runs the reject handler
\* with (error, state) if one is stored, else the combined handler with
\* (Err(error), state) if one is stored; with neither but with a resolve
\* handler it logs a warning, invokes the discard thunk of the record exactly
\* once, runs no handler, and removes the record.
C20_RejectDispatch ==
    \A i \in OpsAt("reject") :
      LET id == world.log[i].id
          error == world.log[i].x[1]
          state == world.log[i].x[2]
          had == world.log[i - 1].x
      IN  IF had.reject THEN CalledAt(i, id, "reject", error, state)
          ELSE IF had.resolve_reject THEN CalledAt(i, id, "resolve_reject", Err(error), state)
          ELSE had.resolve =>
                 /\ world.log[i + 1] = Ev("warn", id, "Discarding resolve branch")
                 /\ DiscardedOnce(i, id, had.discard)
                 /\ HandlersAfter(i, id) = {}
                 /\ ~Pending(id)

\* the calls of operation op that found their registry write-locked
CutShort(op) == {i \in LogIdx : world.log[i].ev = "relock" /\ world.log[i].x = op}
\* what a discard of id leaves of the present world
AfterDiscard(id) == Run(world, <<FDiscard(id)>>)
\* the invocations, in world w and after the present trace, of thunk c on id
NewThunks(w, id, field, c) ==
    {j \in (Len(world.log) + 1)..Len(w.log) : w.log[j] = Ev("thunk", id, <<field, c.k>>)}
\* discard applied to the present world: an absent id gets the error report
\* and nothing else, a present record has its thunk invoked once and is removed
DiscardIsClean(id) ==
    LET w == AfterDiscard(id)
    IN  IF id \notin DOMAIN world.reg
        THEN w = Log(world, "error", id, "trying to discard complete")
        ELSE /\ id \notin DOMAIN w.reg
             /\ ~Halted(w)
             /\ IsSome(world.reg[id].discard) =>
                  Cardinality(NewThunks(w, id, "discard", world.reg[id].discard)) = 1
             /\ IsNone(world.reg[id].discard) =>
                  \A j \in (Len(world.log) + 2)..Len(w.log) : w.log[j].ev # "thunk"

\* C21: discard(id) on an absent id reports an internal error and does nothing
\* else (no thunk, no registry change, no crash); on a present record it
\* invokes the discard thunk once, if there is one, and removes the record.
\* This holds of every discard the engine makes and of a discard of any id in
\* any state between two flushes.
C21_DiscardEffect ==
    /\ CutShort("discard") = {}
    /\ ~Halted(world) => \A id \in Ids : DiscardIsClean(id)

\* the invocations of the register (invoke) thunk of id
InvokesOf(id) ==
    {j \in LogIdx : /\ world.log[j].ev = "thunk" /\ world.log[j].id = id
                    /\ world.log[j].x[1] = "register"}
\* a promise value without an invoke thunk, which the struct allows and no
\* constructor builds, registered in the present world
Thunkless == Promise_register(world, "U", None, None)
AfterThunkless == Run(Thunkless.w, <<FRegister(Thunkless.p)>>)

\* C22: register(promise) inserts the record under its id and then runs the
\* invoke thunk, exactly once, so that a thunk settling its own id finds the
\* record; the record then stays until a resolve, reject or discard of that
\* id; a promise without an invoke thunk is inserted and nothing else happens.
C22_RegisterEffect ==
    /\ \A i \in OpsAt("register") :
         LET id == world.log[i].id
         IN  /\ Num("register", id) = 1
             /\ InvokesOf(id) = {i + 1}
             /\ (i + 3 <= Len(world.log) /\ world.log[i + 1].x[2] = "new_body"
                 /\ world.log[i + 3].ev # "await")
                  => world.log[i + 3].ev = "stored" /\ world.log[i + 3].id = id
             /\ (~Halted(world) /\ Ops(id) = 0) => Pending(id)
    /\ ~Halted(world) =>
         LET p == Thunkless.p
         IN  AfterThunkless = Log(RegistryInsert(Thunkless.w, p), "register", p.id, Unit)

\* a Promise::new settled its own id from inside its invoke thunk while a
\* request registered in the same flush is left waiting
C22_Witness ==
    /\ ~Halted(world)
    /\ \E i \in OpsAt("register") :
         /\ i + 4 <= Len(world.log)
         /\ world.log[i + 1] = Ev("thunk", world.log[i].id, <<"register", "new_body">>)
         /\ world.log[i + 3].ev = "stored" /\ world.log[i + 3].id = world.log[i].id
         /\ world.log[i + 4].ev \in {"resolve", "reject"}
    /\ \E id \in world.requests : Pending(id) /\ Ops(id) = 0

\* the record stores a split handler and the combined handler at once
BothForms(h) == (IsSome(h.resolve) \/ IsSome(h.reject)) /\ IsSome(h.resolve_reject)

\* C23: no record in a registry has a split handler (resolve or reject) and
\* the combined handler populated together, and none had when a resolve or a
\* reject looked it up.
C23_OneHandlerForm ==
    /\ \A id \in DOMAIN world.reg : ~BothForms(world.reg[id])
    /\ \A i \in LogIdx :
         world.log[i].ev = "stored" =>
           ~((world.log[i].x.resolve \/ world.log[i].x.reject) /\ world.log[i].x.resolve_reject)

\* records of all three shapes are pending together: one with the combined
\* handler, one with both split handlers, one with none
C23_Witness ==
    \E a, b, c \in DOMAIN world.reg :
      /\ IsSome(world.reg[a].resolve_reject)
      /\ IsSome(world.reg[b].resolve) /\ IsSome(world.reg[b].reject)
      /\ IsNone(world.reg[c].resolve) /\ IsNone(world.reg[c].reject)
      /\ IsNone(world.reg[c].resolve_reject)

\* C24: no registry lock is held while a stored thunk runs, so every engine
\* call made from inside a thunk acquires the lock of its registry: no call
\* finds its registry write-locked by a frame further up the stack, and the
\* host neither deadlocks on nor panics in a second write().
C24_NoLockAcrossThunks ==
    /\ \A op \in {"resolve", "reject", "register", "discard", "remove"} : CutShort(op) = {}
    /\ world.halt # "deadlock"
    /\ world.locked = {}

\* the x.ok_then(f).or_else(g) of the program, if it is one or continues one
RecoverExpr == IF program.op = "or_else" THEN program ELSE program.of
IsRecover == program \in RecoverPrograms /\ RecoverExpr.op = "or_else"
\* x is the request with state 2 (promises 1 and 2), f's step is the next
\* promise and the chain continues from the one or_else returns
RecoverId == Build(NewWorld, RecoverExpr).p.id

\* C25: in x.ok_then(f).or_else(g), once f has run: if f resolved with r, g is
\* not invoked and the chain continues with r and the state x carried; if f
\* rejected with e, g is invoked exactly once with (state, e) and the chain
\* continues, as a success, with the value g resolved with.
C25_OrElseRecovers ==
    (IsRecover /\ CallsOf("f") # {}) =>
      LET f == RecoverExpr.of.f
          g == RecoverExpr.f
      IN  /\ Num("resolve", RecoverId) = 1 /\ Num("reject", RecoverId) = 0
          /\ StateOf(RecoverId) = 2
          /\ IF f.k = "ok"
             THEN CallsOf("g") = {} /\ ResultOf(RecoverId) = Ok(f.v)
             ELSE /\ Cardinality(CallsOf("g")) = 1
                  /\ \A i \in CallsOf("g") : world.log[i].x = <<"g", 2, f.e>>
                  /\ ResultOf(RecoverId) = Ok(g.v)

\* f rejected with 7, g was called with it and the chain went on with g's 4
C25_Witness ==
    /\ IsRecover /\ RecoverExpr.of.f.k = "err"
    /\ CallsOf("g") # {}
    /\ ResultOf(RecoverId) = Ok(4) /\ Num("resolve", RecoverId) = 1

\* the program recovers with or_else and the handler it gives rejects
RecoveryRejects ==
    /\ program \in CatchPrograms \cup DropPrograms
    /\ RecoverExpr.f.k = "err"
\* the misconfiguration reports of or_else's handler
DroppedErrors ==
    {i \in LogIdx : /\ world.log[i].ev = "error"
                    /\ world.log[i].x = "catch exit with empty (dropped) error"}

\* C26: when the handler given to or_else itself rejects, the engine reports a
\* misconfiguration, no handler is called after it (the error reaches nobody),
\* the promise or_else returns and the promises after it never settle nor run a
\* handler, and the host does not crash.
C26_OrElseRejectDropped ==
    (RecoveryRejects /\ CallsOf("g") # {}) =>
      /\ Cardinality(CallsOf("g")) = 1
      /\ Cardinality(DroppedErrors) = 1
      /\ \A i \in CallsOf("g") :
           /\ DroppedErrors = {i + 1}
           /\ \A j \in LogIdx :
                j > i => world.log[j].ev \notin {"call", "handler", "thunk", "resolve", "reject"}
      /\ \A id \in Ids :
           id >= RecoverId => ~Settled(id) /\ HandlersAfter(0, id) = {}
      /\ CallsOf("h") = {}
      /\ ~Halted(world)

\* g was called with f's 7 and rejected, in a chain that has one more handler
\* after the or_else
C26_Witness ==
    /\ program \in DropPrograms
    /\ \E i \in CallsOf("g") : world.log[i].x = <<"g", 2, 7>>
    /\ DroppedErrors # {}
    /\ Pending(RecoverId)

\* in the pass programs promise 2 is the request p with state 2 and promise 3
\* is p.map_ok(f) or p.map_err(f); the closures inc and dbl change every value
\* p can deliver, so the value tells how many times f was applied
PassId == world.next
PassSource == PassId - 1
\* the result of p with f applied once to the component c ("Ok" or "Err") and
\* the other component untouched
TransformedBy(f, c, result) ==
    IF result[1] # c THEN result ELSE <<c, Transform(f, result[2])>>

\* C27: p.map_ok(f) settles once, with the state of p; when p rejects with e it
\* rejects with e, f not applied, and when p resolves with r it resolves with
\* f(r), f applied once.  p.map_err(f) likewise resolves with r untouched and
\* rejects with f(e).
C27_MapPassesOtherSide ==
    (program \in PassPrograms /\ spawned /\ Settled(PassSource)) =>
      /\ Num("resolve", PassId) + Num("reject", PassId) = 1
      /\ StateOf(PassId) = StateOf(PassSource)
      /\ Cardinality(CallsOf(program.op)) = 1
      /\ ResultOf(PassId)
           = TransformedBy(program.m.k, IF program.op = "map_ok" THEN "Ok" ELSE "Err",
                     ResultOf(PassSource))
      /\ ~Halted(world)

\* p resolved with 5 and p.map_err(inc) resolved with 5 and the state of p
C27_Witness ==
    /\ program = MapErrBy(With(Send, 2), Fn("inc"))
    /\ Settled(PassSource) /\ Settled(PassId)
    /\ ResultOf(PassSource) = Ok(5) /\ ResultOf(PassId) = Ok(5) /\ StateOf(PassId) = 2

\* the steps of a chain and the promise each one denotes: the source is
\* promise 1 and every combinator allocates the next id
RECURSIVE StepsOf(_)
StepsOf(e) == IF "of" \in DOMAIN e THEN {e} \cup StepsOf(e.of) ELSE {e}
RECURSIVE StepId(_)
StepId(e) == IF "of" \in DOMAIN e THEN StepId(e.of) + 1 ELSE 1
RECURSIVE SourceOf(_)
SourceOf(e) == IF "of" \in DOMAIN e THEN SourceOf(e.of) ELSE e
IsChain == SourceOf(program).op \in {"send", "timeout"}
\* the calls of closure bodies made by a combined handler (then, map, map_ok, ..)
ThenCalls ==
    {j \in LogIdx : /\ world.log[j].ev = "call" /\ j > 1
                    /\ world.log[j - 1].ev = "handler"
                    /\ world.log[j - 1].x[1] = "resolve_reject"}
\* in s.then(request) called by the step f of a state program, the request is
\* the first promise allocated after the chain and s.then(..) the second
InnerRequest == StepId(program) + 1
StateThenId == StepId(program) + 2

\* C28: the body a then (or map) handler runs receives the result and the
\* state its promise settled with; p.with(s2) and p.map(m) settle with the
\* result of p and with state s2, respectively m(state of p); the promise
\* s.then(q) settles with the result of q and the state s of the caller, and
\* that is what the next handler receives.
C28_StateForwarded ==
    /\ \A j \in ThenCalls :
         LET id == world.log[j - 1].id
         IN  /\ Settled(id)
             /\ world.log[j].x[2] = StateOf(id)
             /\ world.log[j].x[3] = ResultOf(id)
    /\ (IsChain /\ spawned) =>
         \A e \in StepsOf(program) :
           (e.op \in {"with", "map"} /\ Settled(StepId(e.of))) =>
             /\ Num("resolve", StepId(e)) + Num("reject", StepId(e)) = 1
             /\ ResultOf(StepId(e)) = ResultOf(StepId(e.of))
             /\ StateOf(StepId(e)) = IF e.op = "with" THEN e.s
                                     ELSE Apply(e.m, StateOf(StepId(e.of)))
    /\ (program \in StatePrograms /\ program.of.f.k = "state_then") =>
         /\ Settled(InnerRequest) =>
              /\ Num("resolve", StateThenId) + Num("reject", StateThenId) = 1
              /\ ResultOf(StateThenId) = ResultOf(InnerRequest)
              /\ \A j \in CallsOf("f") : StateOf(StateThenId) = world.log[j].x[2]
              /\ \A j \in CallsOf("h") :
                   world.log[j].x = <<"h", 2, ResultOf(InnerRequest)>>
              /\ CallsOf("h") # {}
    /\ (program \in StatePrograms /\ program.of.f.k = "inc_state") =>
         \A j \in CallsOf("h") : world.log[j].x[2] = 3

\* s.then(request) was returned by f with s = 2, the request failed, and h
\* received the failure with state 2
C28_Witness ==
    /\ program \in StatePrograms /\ program.of.f.k = "state_then"
    /\ \E j \in CallsOf("h") : world.log[j].x = <<"h", 2, Err(9)>>
    /\ Settled(StateThenId) /\ StateOf(StateThenId) = 2

\* w differs from the world only by the ids allocated since
OnlyIdsAdvanced(w) == w = [world EXCEPT !.next = w.next, !.tys = w.tys, !.of = w.of]
\* the program was built and nothing has been applied since
BuiltOnly == spawned /\ Num("flush", 0) = 0

\* C29: building a promise runs no behaviour: after the program was built and
\* before anything is applied, nothing was logged (no thunk, handler or
\* closure ran), no registry, timer, request or value store has an entry and
\* ids were allocated; and building the program once more, in any world
\* reached later, changes nothing but the id allocator.
C29_BuildRunsNothing ==
    /\ BuiltOnly =>
         /\ world.log = <<>> /\ world.reg = <<>>
         /\ world.timers = <<>> /\ world.requests = {} /\ world.heap = <<>>
         /\ world.next > 0
    /\ spawned => OnlyIdsAdvanced(Build(world, program).w)

\* the step queues PromiseCommands and applies nothing
QueuesResults ==
    /\ Len(queue') > Len(queue)
    /\ \A i \in 1..Len(queue') :
         IF i <= Len(queue) THEN queue'[i] = queue[i] ELSE queue'[i].k = "result"
\* the step is the host's synchronization point
AppliesQueue == queue # <<>> /\ queue' = <<>>
\* the operation the engine logs for a PromiseCommand with this payload
WrittenAs(cmd) ==
    Ev(IF IsOk(cmd.result) THEN "resolve" ELSE "reject", cmd.id, <<cmd.result[2], Unit>>)

\* C30: a step that queues PromiseCommands changes no registry and runs
\* nothing (the trace of the engine does not grow); when the host applies the
\* queue, each PromiseCommand whose promise is found calls resolve for an Ok
\* payload and reject for an Err payload, for its id, with the payload and the
\* unit state.
C30_CommandDeferred ==
    [][/\ QueuesResults =>
            /\ world'.reg = world.reg /\ world'.log = world.log
            /\ world'.halt = world.halt
       /\ AppliesQueue =>
            \A i \in 1..Len(queue) :
              (queue[i].k = "result" /\ (~Halted(world') \/ (i = 1 /\ Pending(queue[i].id)))) =>
                /\ \E j \in (Len(world.log) + 1)..Len(world'.log) :
                     world'.log[j] = WrittenAs(queue[i])
                /\ \A j \in (Len(world.log) + 1)..Len(world'.log) :
                     (world'.log[j].ev \in {"resolve", "reject"} /\ world'.log[j].id = queue[i].id)
                       => world'.log[j] = WrittenAs(queue[i])]_vars

\* a queued Err payload for the request 1 was applied as reject(1, 9, ())
C30_Witness ==
    \E i \in LogIdx :
      /\ world.log[i].ev = "flush" /\ world.log[i].x = <<<<"result", 1>>>>
      /\ i + 2 <= Len(world.log)
      /\ world.log[i + 2] = Ev("reject", 1, <<9, Unit>>)

\* the positions at which a fan-in of the any promise A chose its winner
WinnerAt(A) == {k \in LogIdx : world.log[k].ev = "winner" /\ world.log[k].id = A}
\* the discards applied to the elements of A after a fan-in chose the winner
FanOut(A) ==
    {i \in LogIdx : /\ world.log[i].ev = "discard"
                    /\ \E n \in 1..Len(world.of[A]) : world.log[i].id = world.of[A][n]
                    /\ \E k \in WinnerAt(A) : k < i}

\* C31: the discards an any (or all) promise fans out to its sibling elements
\* come after the resolve of the combinator promise: every such discard is
\* preceded in the run by the resolve of the promise.
C31_FanOutAfterResolve ==
    \A A \in AnyIds \cup AllIds :
      \A i \in FanOut(A) :
        \E j \in LogIdx : j < i /\ world.log[j].ev = "resolve" /\ world.log[j].id = A

\* the timers the program itself builds, as <<id, duration>>: the source of a
\* chain is promise 1, the elements of an any / all of single promises are
\* promises 1..n
ProgramTimers ==
    IF SourceOf(program).op = "timeout" THEN {<<1, SourceOf(program).d>>}
    ELSE IF /\ program.op \in {"any", "all"}
            /\ \A n \in 1..Len(program.els) : program.els[n].op \in {"timeout", "send", "new"}
    THEN {<<n, program.els[n].d>> : n \in {m \in 1..Len(program.els) : program.els[m].op = "timeout"}}
    ELSE {}

\* C32: a timer of duration d started at elapsed time t has its resolve command
\* queued by process_timers only on a tick with elapsed >= t + d, and at most
\* one command is ever queued for it.
C32_TimerNotEarly ==
    \A tm \in ProgramTimers :
      LET id == tm[1]
          d == tm[2]
      IN  /\ Cardinality(ResultCommands(id)) + Cardinality(QueuedResults(id)) <= 1
          /\ (QueuedResults(id) # {} \/ ResultCommands(id) # {}) =>
               /\ Num("start", id) > 0
               /\ world.elapsed >= StartedAt(id) + d

\* the operations ev ("resolve" or "reject") that found a record without any
\* handler: no resolve, no reject, no combined handler
OnBareRecord(ev) ==
    {i \in LogIdx : /\ world.log[i].ev = ev /\ i > 1
                    /\ world.log[i - 1].ev = "stored"
                    /\ ~world.log[i - 1].x.resolve /\ ~world.log[i - 1].x.reject
                    /\ ~world.log[i - 1].x.resolve_reject}
\* the operation at position i ran no thunk and reported nothing, and the
\* record is gone
SilentlyRemoved(i) ==
    LET id == world.log[i].id
    IN  /\ \A j \in LogIdx :
             (j > i /\ world.log[j].id = id) => world.log[j].ev \notin {"thunk", "handler", "error", "warn"}
        /\ ~Pending(id)

\* C33: reject on a pending record without any handler behaves like resolve on
\* such a record: it runs nothing, reports no internal error and removes the
\* record.
C33_RejectBareRecord == \A i \in OnBareRecord("reject") : SilentlyRemoved(i)

\* the program is, or continues, a chain x.ok_then(f).or_else(g)
HasOrElse ==
    /\ program \in CatchPrograms \cup RecoverPrograms \cup DropPrograms
    /\ RecoverExpr.op = "or_else"
\* x is the promise ok_then was called on: two ids before the one or_else returns
UpstreamId == RecoverId - 2

\* C34: when x itself rejects with e in x.ok_then(f).or_else(g), g is invoked
\* with e and the chain continues with the value g resolves with.
C34_UpstreamRejectCaught ==
    (HasOrElse /\ Num("reject", UpstreamId) > 0) =>
      /\ \E i \in CallsOf("g") : world.log[i].x[3] = ResultOf(UpstreamId)[2]
      /\ RecoverExpr.f.k = "ok" => ResultOf(RecoverId) = Ok(RecoverExpr.f.v)

\* the promise a body of the program builds and returns to await is the first
\* one allocated after those of the program
NestedId == Build(NewWorld, program).p.id + 1

\* C35: when or_else's handler g returns a nested promise to await, the nested
\* promise is registered, and when it resolves with r the promise or_else
\* returned resolves with r.
C35_OrElseAwaits ==
    (program \in AwaitCatchPrograms /\ CallsOf("g") # {}) =>
      /\ Registered(NestedId)
      /\ Resolved(NestedId) =>
           /\ Resolved(RecoverId)
           /\ world.log[First("resolve", RecoverId)].x[1] = world.log[First("resolve", NestedId)].x[1]

\* C36: when the body of Promise::new returns a nested promise N to await, P
\* settles as N does: it resolves with (r, s) when N resolves with (r, s) and
\* rejects with (e, s) when N rejects with (e, s), exactly once, and its record
\* is removed.
C36_NewAwaitsBoth ==
    (program \in NewAwaitPrograms /\ Settled(NestedId)) =>
      /\ Num("resolve", 1) + Num("reject", 1) = 1
      /\ ResultOf(1) = ResultOf(NestedId)
      /\ StateOf(1) = StateOf(NestedId)
      /\ ~Pending(1)

\* the promise the program denotes: the last one Build allocates for it
TopId == Build(NewWorld, program).p.id

\* C37: once an any or all promise registered on empty registries has resolved
\* (its continuation, if any, runs in the same pass), no record remains in any
\* registry: the element wrappers and the fan-in helpers are settled and removed.
C37_CombinatorLeavesNothing ==
    (program.op \in {"any", "all"} /\ Resolved(TopId) /\ ~Halted(world)) =>
      DOMAIN world.reg = {}

\* the elements of the any promise A registered after A's fan-in already had a winner
LateElements(A) ==
    {n \in 1..Len(world.of[A]) :
       \E k \in WinnerAt(A) : \E i \in LogIdx :
         i > k /\ world.log[i].ev = "register" /\ world.log[i].id = world.of[A][n]}
ActiveWork(id) == id \in world.requests \/ id \in DOMAIN world.timers

\* C38: when an element of an any promise settles while the any promise is still
\* registering its elements, no element registered after that is left with
\* external work in flight, and no second fan-in is run for the any promise.
C38_SyncWinnerStopsLosers ==
    \A A \in AnyIds :
      LateElements(A) # {} =>
        /\ \A n \in LateElements(A) : ~ActiveWork(world.of[A][n])
        /\ Cardinality(WinnerAt(A)) <= 1

\* C39: an all promise made of no promise at all resolves as soon as it is
\* registered, with the empty vector, and leaves no pending record.
C39_EmptyAllResolves ==
    (program \in EmptyPrograms /\ Registered(TopId)) =>
      /\ Resolved(TopId)
      /\ world.log[First("resolve", TopId)].x[1] = <<>>
      /\ ~Pending(TopId)

====
